---- MODULE Spec2Model ----
(***************************************************************************)
(* The data-synchronisation pipeline of twilio_number_search:              *)
(*   api/app/services/twilio_client.py   the provider adapter              *)
(*   api/app/tasks/sync_task.py          the two sync pipelines, upserts   *)
(*   api/app/routers/sync.py             triggers and background wrappers  *)
(*                                                                         *)
(* The program runs on one asyncio event loop: a coroutine runs without    *)
(* interruption from one await to the next.  Every action below is one     *)
(* such run: it starts where a coroutine is resumed (a response arrives, a *)
(* timer expires, a semaphore slot is granted) and ends at its next await. *)
(***************************************************************************)
EXTENDS Integers, Sequences, FiniteSets, TLC

\* ---------------------------------------------------------------- bounds
MaxJobs == 2            \* trigger calls in a run of the pipeline model
MaxCountries == 2       \* countries the provider enumerates (pipeline model)
MaxPages == 2           \* pages of the country enumeration (pipeline model)
FanoutCountries == 12   \* countries enumerated in the fan-out model

\* ------------------------------------------------------ program constants
max_retries == 3
ConcurrencyLimit == 10
DefaultRetryAfter == 60

\* --------------------------------------------------------------- values
NoCode == "NoCode"      \* an enumerated entry whose country_code is missing
NoExc == "NoExc"        \* no exception is propagating
None == "None"          \* Python None, in a field that otherwise holds a string
NoHeader == "NoHeader"  \* the response carries no Retry-After header

\* Country codes the provider knows; the pipeline model uses the first
\* MaxCountries of them, the fan-out model the first FanoutCountries.
CodeList ==
    <<"AD", "AE", "AF", "AG", "AI", "AL", "AM", "AO", "AR", "AT", "AU", "AZ",
      "BA", "BB">>
CodeOf(i) == CodeList[i]
Codes == {CodeOf(i) : i \in 1..MaxCountries}
Entries == Codes \cup {NoCode}
NumberTypes ==
    {"local", "toll_free", "mobile", "national", "voip", "shared_cost",
     "machine_to_machine"}

\* What the provider may answer to one HTTP request.
RespKinds == {"ok", "malformed", "http_error", "rate_limited", "network"}
RetryAfterValues == {NoHeader, "2"}

\* The messages of the faults the adapter raises, and of a store fault.
RateLimitMsg == "TwilioRateLimitError: Rate limit exceeded after 3 retries"
ApiErrorMsg == "TwilioAPIError: API error"
RequestErrorMsg == "TwilioAPIError: Request error after 3 retries"
JsonErrorMsg == "JSONDecodeError"
DbErrorMsg == "DBAPIError"

\* -------------------------------------------------------------- helpers
RECURSIVE Pow2(_)
Pow2(n) == IF n = 0 THEN 1 ELSE 2 * Pow2(n - 1)

RECURSIVE Flatten(_)
Flatten(ss) == IF ss = <<>> THEN <<>> ELSE Head(ss) \o Flatten(Tail(ss))

RECURSIVE SelectIdx(_, _, _)
\* The indices i >= from of sequence s with s[i].keep, in increasing order.
SelectIdx(s, from, acc) ==
    IF from > Len(s) THEN acc
    ELSE SelectIdx(s, from + 1, IF s[from].keep THEN Append(acc, from) ELSE acc)

Range(s) == {s[i] : i \in DOMAIN s}

\* ------------------------------------------- TwilioClient._make_request
\* The retry counter handed to the recursive call.
NextRetryStuck(retry_count) == retry_count
NextRetry(retry_count) == retry_count + 1

\* int(text) for the header texts the provider sends.
IntOf(text) == CASE text = "2" -> 2 [] text = "60" -> 60 [] OTHER -> 0

\* retry_after = int(response.headers.get("Retry-After", "60"))
RetryAfterIgnoresHeader(header) == DefaultRetryAfter
RetryAfter(header) ==
    IF header = NoHeader THEN DefaultRetryAfter ELSE IntOf(header)

\* wait_time = 2 ** retry_count
BackoffFlat(retry_count) == 1
Backoff(retry_count) == Pow2(retry_count)

\* response.status_code == 429 (twilio_client.py:86-94)
OnRateLimitedOneMore(retry_count, header) ==
    IF retry_count <= max_retries
    THEN [next |-> "sleep", wait |-> RetryAfter(header), fault |-> NoExc]
    ELSE [next |-> "raise", wait |-> 0, fault |-> RateLimitMsg]
OnRateLimited(retry_count, header) ==
    IF retry_count < max_retries
    THEN [next |-> "sleep", wait |-> RetryAfter(header), fault |-> NoExc]
    ELSE [next |-> "raise", wait |-> 0, fault |-> RateLimitMsg]

\* raise_for_status() raises for any other error status; the handler of
\* httpx.HTTPStatusError (twilio_client.py:97-103) raises TwilioAPIError.
OnStatusErrorRetried(retry_count) ==
    IF retry_count < max_retries
    THEN [next |-> "sleep", wait |-> Backoff(retry_count), fault |-> NoExc]
    ELSE [next |-> "raise", wait |-> 0, fault |-> ApiErrorMsg]
OnStatusError(retry_count) ==
    [next |-> "raise", wait |-> 0, fault |-> ApiErrorMsg]

\* The handler of httpx.RequestError (twilio_client.py:104-111).
OnRequestError(retry_count) ==
    IF retry_count < max_retries
    THEN [next |-> "sleep", wait |-> Backoff(retry_count), fault |-> NoExc]
    ELSE [next |-> "raise", wait |-> 0, fault |-> RequestErrorMsg]

\* One pass through the body of _make_request, from the arrival of the
\* response (or of the transport error) to the next await or to the exit.
\*   next = "return": the response is handed to the caller
\*   next = "sleep":  asyncio.sleep(wait), then the recursive call
\*   next = "raise":  the fault `fault` propagates to the caller
MakeRequest(retry_count, kind, header) ==
    CASE kind = "rate_limited" -> OnRateLimited(retry_count, header)
      [] kind = "http_error" -> OnStatusError(retry_count)
      [] kind = "network" -> OnRequestError(retry_count)
      [] OTHER -> [next |-> "return", wait |-> 0, fault |-> NoExc]

\* The state of one pending _make_request call of a coroutine.
NewRequest == [pc |-> "request", rc |-> 0, wait |-> 0]
Sleeping(rc, wait) == [pc |-> "sleep", rc |-> rc, wait |-> wait]
Retrying(rc) == [pc |-> "request", rc |-> NextRetry(rc), wait |-> 0]
NoRequest == [pc |-> "none", rc |-> 0, wait |-> 0]


\* ---------------------------------------------------------------- state
VARIABLES
    sync_jobs,      \* the registry: job id -> record (sync_task.py:18)
    run,            \* job id -> the state of that job's background task
    provider,       \* what the remote API holds and how it may answer
    countryStore,   \* table country_number_types: the set of its rows
    regStore,       \* table regulations: the set of its rows
    callers,        \* trigger calls the service's callers will still make
    client,         \* one call of a TwilioClient method, seen on its own
    now,            \* the clock of the database, read by func.now()
    writes          \* the upsert statements committed so far, oldest first

vars ==
    <<sync_jobs, run, provider, countryStore, regStore, callers, client, now,
      writes>>

\* The identifiers of the jobs triggered so far.
Jobs == DOMAIN run

\* --------------------------------------------------- provider payloads
\* A country-detail payload: data of GET .../AvailablePhoneNumbers/{code}.json
DetailOf(code) ==
    IF code = CodeOf(1)
    THEN [country |-> "one", beta |-> FALSE,
          subresource_uris |-> {"local", "mobile", "other"}]
    ELSE [country |-> "more", beta |-> TRUE,
          subresource_uris |-> {"toll_free"}]

\* One regulation of the provider's listing for a country.
RegOf(code, n, sid) ==
    [sid |-> sid, friendly_name |-> "name", iso_country |-> code,
     number_type |-> IF n = 1 THEN "mobile" ELSE None,
     end_user_type |-> IF n = 1 THEN "business" ELSE "individual",
     requirements |-> IF n = 1 THEN "req-a" ELSE "req-b",
     url |-> None]

\* The pages of the regulation listing of a country: the first code has two
\* pages, the second regulation without an identifier; the others one page.
RegPagesOf(code) ==
    IF code = CodeOf(1)
    THEN << <<RegOf(code, 1, "RN" \o code)>>, <<RegOf(code, 2, None)>> >>
    ELSE << <<RegOf(code, 1, "RN" \o code), RegOf(code, 2, "RM" \o code)>> >>

\* ------------------------------------ TwilioClient.extract_number_types
\* subresource_uris = country_data.get("subresource_uris", {})
SubresourceUris(country_data) ==
    IF "subresource_uris" \in DOMAIN country_data
    THEN country_data.subresource_uris ELSE {}

extract_number_types_any(country_data) ==
    [t \in NumberTypes |-> SubresourceUris(country_data) # {}]
extract_number_types(country_data) ==
    [t \in NumberTypes |-> t \in SubresourceUris(country_data)]

\* ----------------------------------------------------- the job registry
\* sync_jobs[job_id] = {...}   (sync_task.py:41-47, 202-208)
\* started_at, datetime.utcnow() at the creation of the record, is the
\* number of the record in the order of creation.
NewJobRecord(started_at) ==
    [status |-> "in_progress", started_at |-> started_at,
     countries_processed |-> 0,
     countries_total |-> <<>>, error |-> None, completed_at |-> FALSE]

\* dict assignment d[k] = v
DictSetFresh(d, k, v) == [x \in {k} |-> v]
DictSet(d, k, v) == [x \in DOMAIN d \cup {k} |-> IF x = k THEN v ELSE d[x]]

\* get_sync_job_status(job_id): <<>> stands for None
get_sync_job_status(job_id) ==
    IF job_id \in DOMAIN sync_jobs THEN <<sync_jobs[job_id]>> ELSE <<>>

\* GET /sync/{job_id} (sync.py:112-136): 404 when the registry has no
\* record, else the fields of the record as they are at that moment.
get_sync_status(job_id) ==
    LET job_status == get_sync_job_status(job_id)
    IN  IF job_status = <<>>
        THEN [status_code |-> 404, body |-> <<>>]
        ELSE [status_code |-> 200,
              body |-> <<[job_id |-> job_id,
                          status |-> job_status[1].status,
                          started_at |-> job_status[1].started_at,
                          completed_at |-> job_status[1].completed_at,
                          countries_processed |-> job_status[1].countries_processed,
                          countries_total |-> job_status[1].countries_total,
                          error |-> job_status[1].error]>>]

\* The handler `except Exception as e` of the sync functions
\* (sync_task.py:115-119, 278-282).
SyncFail(rec, msg) ==
    [rec EXCEPT !.status = "failed", !.error = msg, !.completed_at = TRUE]

\* The handler `except Exception as e` of the wrappers (sync.py:48-53, 71-76).
WrapperFailStatusOnly(rec, msg) == [rec EXCEPT !.status = "failed"]
WrapperFail(rec, msg) == [rec EXCEPT !.error = msg, !.status = "failed"]

\* -------------------------------------------------- one background task
IdleRun ==
    [pc |-> "idle", kind |-> "none", req |-> NoRequest, served |-> <<>>,
     all_countries |-> <<>>, tasks |-> <<>>, sem |-> 0, ret |-> <<>>,
     exc |-> NoExc, closes |-> 0, upsert |-> "none", enum_fault |-> NoExc]

\* Fields of a run that record what has happened, for the properties:
\*   served      the pages list_countries has been served so far
\*   enum_fault  the fault that ended a page fetch of list_countries
\*   closes      the calls of client.close()
\*   upsert      "none", "skipped" (nothing to write), "committed", "failed"

\* One fan-out coroutine (process_country / process_country_regulations).
NewTask(entry) ==
    [country |-> entry, pc |-> "wait", rc |-> 0, wait |-> 0, page |-> 0,
     acc |-> <<>>, out |-> "pending", data |-> <<>>]

TaskDone(task, out, data) ==
    [task EXCEPT !.pc = "done", !.rc = 0, !.wait = 0, !.page = 0,
                 !.acc = <<>>, !.out = out, !.data = data]


\* ------------------------------------------------- asyncio.Semaphore(10)
\* Semaphore.acquire() returns at once iff the value is positive.
CanAcquireOffByOne(sem) == sem >= 0
CanAcquire(sem) == sem > 0

\* __aexit__ of `async with semaphore`: runs on every exit of the block,
\* out being how the block ended ("ok", "fail", "skip").
ReleaseOnSuccessOnly(sem, out) == IF out = "ok" THEN sem + 1 ELSE sem
ReleaseNotOnSkip(sem, out) == IF out = "skip" THEN sem ELSE sem + 1
Release(sem, out) == sem + 1

\* ------------------------------------------------- trigger (sync.py)
\* trigger_sync / trigger_regulations_sync: job_id = str(uuid.uuid4()) is a
\* fresh identifier; the wrapper is handed to BackgroundTasks, which starts
\* it after the response has been sent.
uuid4Reused(used) == 1
uuid4(used) == Cardinality(used) + 1
Trigger(kind) ==
    /\ callers > 0
    /\ callers' = callers - 1
    /\ LET job_id == uuid4(DOMAIN run)
       IN  run' = DictSet(run, job_id, [IdleRun EXCEPT !.pc = "queued",
                                                       !.kind = kind])
    /\ UNCHANGED <<sync_jobs, provider, countryStore, regStore,
                   client, now, writes>>

\* run_sync_task -> sync_twilio_number_types (or the regulations pair) up
\* to its first await: the registry record is created, the client built and
\* the first page of list_countries requested.
StartTask(j) ==
    /\ run[j].pc = "queued"
    /\ sync_jobs' = DictSet(sync_jobs, j,
                            NewJobRecord(Cardinality(DOMAIN sync_jobs) + 1))
    /\ run' = [run EXCEPT ![j].pc = "enum", ![j].req = NewRequest]
    /\ UNCHANGED <<provider, countryStore, regStore, callers,
                   client, now, writes>>

\* ------------------------------------- list_countries and what follows
\* An exception leaves the inner try block: the state before client.close().
Propagate(r, fault) ==
    [r EXCEPT !.pc = "closing", !.exc = fault, !.req = NoRequest,
              !.all_countries = <<>>, !.tasks = <<>>]

\* countries = await client.list_countries() has returned; the semaphore
\* and one coroutine per country are created and handed to gather.
StartFanout(r, countries) ==
    [r EXCEPT !.pc = "fanout", !.req = NoRequest, !.served = <<>>,
              !.all_countries = countries,
              !.tasks = [i \in 1..Len(countries) |-> NewTask(countries[i])],
              !.sem = ConcurrencyLimit]

\* A page fetch of list_countries fails: the fault leaves list_countries
\* and the try block; all_countries is dropped with the frame.
OnEnumFaultPartial(r, rec, fault) ==
    [run |-> StartFanout(r, r.all_countries),
     job |-> [rec EXCEPT !.countries_total = <<Len(r.all_countries)>>]]
OnEnumFault(r, rec, fault) ==
    [run |-> Propagate(r, fault), job |-> rec]

\* A page of list_countries has arrived (twilio_client.py:126-135) with
\* the countries `page` and, iff `more`, a next_page_uri; sync_task.py:57-92
\* follows when it was the last one.
OnEnumPageEarlyTotal(r, rec, page, more) ==
    LET all == r.all_countries \o page
    IN  IF more
        THEN [run |-> [r EXCEPT !.served = Append(r.served, page),
                                !.all_countries = all, !.req = NewRequest],
              job |-> [rec EXCEPT !.countries_total = <<Len(all)>>]]
        ELSE [run |-> StartFanout(r, all),
              job |-> [rec EXCEPT !.countries_total = <<Len(all)>>]]
OnEnumPage(r, rec, page, more) ==
    LET all == r.all_countries \o page
    IN  IF more
        THEN [run |-> [r EXCEPT !.served = Append(r.served, page),
                                !.all_countries = all, !.req = NewRequest],
              job |-> rec]
        ELSE [run |-> StartFanout(r, all),
              job |-> [rec EXCEPT !.countries_total = <<Len(all)>>]]

\* The response to the pending request of list_countries arrives.
EnumResponse(j, kind, header, page, more) ==
    /\ run[j].pc = "enum"
    /\ run[j].req.pc = "request"
    /\ kind \in provider.may["countries"]
    /\ page \in provider.catalog
    /\ Len(run[j].all_countries) + Len(page) <= provider.max_countries
    /\ more => Len(run[j].served) + 1 < provider.max_pages
    /\ LET r == run[j]
           step == MakeRequest(r.req.rc, kind, header)
           nxt == CASE step.next = "sleep" ->
                         [run |-> [r EXCEPT !.req = Sleeping(r.req.rc, step.wait)],
                          job |-> sync_jobs[j]]
                    [] step.next = "raise" ->
                         OnEnumFault(r, sync_jobs[j], step.fault)
                    [] OTHER ->
                         IF kind = "malformed"
                         THEN OnEnumFault(r, sync_jobs[j], JsonErrorMsg)
                         ELSE OnEnumPage(r, sync_jobs[j], page, more)
           fault == CASE step.next = "raise" -> step.fault
                      [] step.next = "return" /\ kind = "malformed" -> JsonErrorMsg
                      [] OTHER -> NoExc
       IN  /\ run' = [run EXCEPT ![j] = [nxt.run EXCEPT !.enum_fault = fault]]
           /\ sync_jobs' = [sync_jobs EXCEPT ![j] = nxt.job]
    /\ UNCHANGED <<provider, countryStore, regStore, callers,
                   client, now, writes>>

\* asyncio.sleep of list_countries' pending request is over: the recursive
\* call of _make_request sends the request again.
EnumWake(j) ==
    /\ run[j].pc = "enum"
    /\ run[j].req.pc = "sleep"
    /\ run' = [run EXCEPT ![j].req = Retrying(run[j].req.rc)]
    /\ UNCHANGED <<sync_jobs, provider, countryStore, regStore,
                   callers, client, now, writes>>


\* ------------------------------------------------ the fan-out coroutines
\* country_data of process_country (sync_task.py:77-82).
CountryData(country_code, country_details) ==
    [country_code |-> country_code, country |-> country_details.country,
     beta |-> country_details.beta]
        @@ extract_number_types(country_details)

\* One entry of regulations_data (sync_task.py:240-248).
PrepareRegulation(reg) ==
    [sid |-> reg.sid, friendly_name |-> reg.friendly_name,
     iso_country |-> reg.iso_country, number_type |-> reg.number_type,
     end_user_type |-> "business", requirements |-> reg.requirements,
     url |-> reg.url]

\* A fault inside the try block of a fan-out coroutine: logged, and the
\* coroutine returns None (number types) or [] (regulations).
OnTaskFaultKeepsPages(task, fault) ==
    TaskDone(task, "fail",
             [i \in 1..Len(task.acc) |-> PrepareRegulation(task.acc[i])])
OnTaskFault(task, fault) == TaskDone(task, "fail", <<>>)

\* The successful response to the pending request of a fan-out coroutine.
OnTaskPage(kind, task) ==
    IF kind = "types"
    THEN TaskDone(task, "ok", <<CountryData(task.country, DetailOf(task.country))>>)
    ELSE LET pages == RegPagesOf(task.country)
             acc == task.acc \o pages[task.page]
         IN  IF task.page < Len(pages)
             THEN [task EXCEPT !.page = task.page + 1, !.acc = acc, !.rc = 0]
             ELSE TaskDone(task, "ok",
                           [i \in 1..Len(acc) |-> PrepareRegulation(acc[i])])

\* The lowest waiting coroutine: asyncio starts the coroutines of gather in
\* the order of the list, and the semaphore wakes its waiters first in,
\* first out.
NextWaiting(tasks) ==
    LET w == {i \in DOMAIN tasks : tasks[i].pc = "wait"}
    IN  IF w = {} THEN 0 ELSE CHOOSE i \in w : \A k \in w : i <= k

\* A coroutine enters `async with semaphore`.  An entry without a country
\* code returns at once, which releases the slot in the same run.
Admit(j) ==
    /\ run[j].pc = "fanout"
    /\ NextWaiting(run[j].tasks) # 0
    /\ CanAcquire(run[j].sem)
    /\ LET i == NextWaiting(run[j].tasks)
           task == run[j].tasks[i]
       IN  IF task.country = NoCode
           THEN run' = [run EXCEPT
                   ![j].tasks[i] = TaskDone(task, "skip", <<>>),
                   ![j].sem = Release(run[j].sem - 1, "skip")]
           ELSE run' = [run EXCEPT
                   ![j].tasks[i] = [task EXCEPT !.pc = "request", !.rc = 0,
                                                !.page = 1],
                   ![j].sem = run[j].sem - 1]
    /\ UNCHANGED <<sync_jobs, provider, countryStore, regStore,
                   callers, client, now, writes>>

\* The response to the pending request of coroutine i arrives
\* (get_country_details, or one page of list_regulations).
TaskResponse(j, i, kind, header) ==
    /\ run[j].pc = "fanout"
    /\ i \in DOMAIN run[j].tasks
    /\ run[j].tasks[i].pc = "request"
    /\ kind \in provider.may[run[j].tasks[i].country]
    /\ LET task == run[j].tasks[i]
           step == MakeRequest(task.rc, kind, header)
           after == CASE step.next = "sleep" ->
                           [task EXCEPT !.pc = "sleep", !.wait = step.wait]
                      [] step.next = "raise" -> OnTaskFault(task, step.fault)
                      [] OTHER ->
                           IF kind = "malformed"
                           THEN OnTaskFault(task, JsonErrorMsg)
                           ELSE OnTaskPage(run[j].kind, task)
       IN  run' = [run EXCEPT
                ![j].tasks[i] = after,
                ![j].sem = IF after.pc = "done"
                           THEN Release(run[j].sem, after.out)
                           ELSE run[j].sem]
    /\ UNCHANGED <<sync_jobs, provider, countryStore, regStore,
                   callers, client, now, writes>>

\* asyncio.sleep of coroutine i is over: the request is sent again.
TaskWake(j, i) ==
    /\ run[j].pc = "fanout"
    /\ i \in DOMAIN run[j].tasks
    /\ run[j].tasks[i].pc = "sleep"
    /\ run' = [run EXCEPT ![j].tasks[i] =
                 [run[j].tasks[i] EXCEPT !.pc = "request", !.wait = 0,
                                         !.rc = NextRetry(run[j].tasks[i].rc)]]
    /\ UNCHANGED <<sync_jobs, provider, countryStore, regStore,
                   callers, client, now, writes>>


\* ------------------------------------------- after gather has returned
\* valid_results (sync_task.py:95-98): the results that are neither None
\* nor an exception, in the order of the countries.
ValidResultsUntilFault(tasks) ==
    LET bad == {i \in DOMAIN tasks : tasks[i].out # "ok"}
    IN  Flatten([i \in DOMAIN tasks |->
                   IF \E k \in bad : k <= i THEN <<>> ELSE tasks[i].data])
ValidResults(tasks) ==
    Flatten([i \in DOMAIN tasks |->
               IF tasks[i].out = "ok" THEN tasks[i].data ELSE <<>>])

\* all_regulations (sync_task.py:260-265): the lists of all coroutines,
\* flattened in the order of the countries.
AllRegulations(tasks) == Flatten([i \in DOMAIN tasks |-> tasks[i].data])

\* sync_jobs[job_id]["countries_processed"] = ... (sync_task.py:104, 267)
CountriesProcessedAll(kind, countries, ret) == Len(countries)
CountriesProcessed(kind, countries, ret) ==
    IF kind = "types" THEN Len(ret) ELSE Len(countries)

\* asyncio.gather(*tasks, return_exceptions=True) (sync_task.py:91, 257)
\* returns when every coroutine has ended, by a return or by a fault.
GatherDoneAtFirstFault(tasks) ==
    \/ \A i \in DOMAIN tasks : tasks[i].pc = "done"
    \/ \E i \in DOMAIN tasks : tasks[i].out = "fail"
GatherDone(tasks) == \A i \in DOMAIN tasks : tasks[i].pc = "done"

\* gather has returned: the results are aggregated and the job is marked
\* completed (sync_task.py:95-110, 260-273); next await: client.close().
Aggregate(j) ==
    /\ run[j].pc = "fanout"
    /\ GatherDone(run[j].tasks)
    /\ LET r == run[j]
           ret == IF r.kind = "types" THEN ValidResults(r.tasks)
                  ELSE AllRegulations(r.tasks)
       IN  /\ run' = [run EXCEPT ![j].pc = "closing", ![j].ret = ret]
           /\ sync_jobs' = [sync_jobs EXCEPT ![j] =
                 [@ EXCEPT !.countries_processed =
                               CountriesProcessed(r.kind, r.all_countries, ret),
                           !.status = "completed",
                           !.completed_at = TRUE]]
    /\ UNCHANGED <<provider, countryStore, regStore, callers,
                   client, now, writes>>

\* ------------------------------------------------------------- upserts
\* values of upsert_countries_to_db (sync_task.py:138-151).
CountryValues(countries_data) == countries_data

\* dict.get(key, default) of Python.
Get(d, key, default) == IF key \in DOMAIN d THEN d[key] ELSE default

\* `reg.get("sid")` is truthy: the key is there, and its value is neither
\* None nor the empty string.
HasSid(reg) == Get(reg, "sid", None) \notin {None, ""}

\* One entry of values of upsert_regulations_to_db (sync_task.py:305-313):
\* the sid is reg["sid"], end_user_type is reg.get("end_user_type",
\* "business"), and every other column is reg.get(column), None when the
\* record has no such key.
RegulationValue(reg) ==
    [sid |-> reg.sid, friendly_name |-> Get(reg, "friendly_name", None),
     iso_country |-> Get(reg, "iso_country", None),
     number_type |-> Get(reg, "number_type", None),
     end_user_type |-> Get(reg, "end_user_type", "business"),
     requirements |-> Get(reg, "requirements", None),
     url |-> Get(reg, "url", None)]

\* values of upsert_regulations_to_db (sync_task.py:301-313): records
\* without a sid are skipped.
RegulationValuesAll(regulations_data) ==
    [k \in DOMAIN regulations_data |->
        RegulationValue(regulations_data[k] @@ [sid |-> None])]
RegulationValues(regulations_data) ==
    LET keep == SelectIdx([i \in DOMAIN regulations_data |->
                             [keep |-> HasSid(regulations_data[i])]],
                          1, <<>>)
    IN  [k \in DOMAIN keep |-> RegulationValue(regulations_data[keep[k]])]

\* The early returns of the two upsert functions (sync_task.py:134-135,
\* 297-298, 315-316): there is nothing to write.
NothingToWriteNever(data, values) == FALSE
NothingToWrite(data, values) == Len(data) = 0 \/ Len(values) = 0

\* INSERT ... ON CONFLICT (key) DO UPDATE of PostgreSQL rejects a statement
\* that proposes the same key twice.
HasDuplicateKeyIgnored(values, key) == FALSE
HasDuplicateKey(values, key) ==
    \E a, b \in DOMAIN values : a # b /\ values[a][key] = values[b][key]

\* The table after the statement has been committed at time `at`: a
\* proposed row whose key is not in the table is inserted (last_updated by
\* its server default), and a row whose key is there gets every column of
\* set_, that is all the proposed columns and last_updated.
UpsertRowsDoNothing(table, values, key, at) ==
    LET keys == {row[key] : row \in table}
    IN  table \cup {values[i] @@ [last_updated |-> at] :
                       i \in {x \in DOMAIN values : values[x][key] \notin keys}}
UpsertRowsMerge(table, values, key, at) ==
    LET keys == {values[i][key] : i \in DOMAIN values}
        Old(v) == {row \in table : row[key] = v[key]}
        Merged(v) ==
            IF Old(v) = {} THEN v
            ELSE LET old == CHOOSE row \in Old(v) : TRUE
                 IN  [c \in DOMAIN v |->
                         IF c = "requirements" /\ v[c] = None
                         THEN old[c] ELSE v[c]]
    IN  {row \in table : row[key] \notin keys}
           \cup {Merged(values[i]) @@ [last_updated |-> at] :
                    i \in DOMAIN values}
UpsertRowsTruncate(table, values, key, at) ==
    {values[i] @@ [last_updated |-> at] : i \in DOMAIN values}
UpsertRowsAppend(table, values, key, at) ==
    table \cup {values[i] @@ [last_updated |-> at] : i \in DOMAIN values}
UpsertRows(table, values, key, at) ==
    LET keys == {values[i][key] : i \in DOMAIN values}
    IN  {row \in table : row[key] \notin keys}
           \cup {values[i] @@ [last_updated |-> at] : i \in DOMAIN values}

\* db.execute(stmt) and db.commit() have succeeded.
CommitUpsert(kind, values) ==
    /\ IF kind = "types"
       THEN /\ countryStore' =
                  UpsertRows(countryStore, values, "country_code", now)
            /\ UNCHANGED regStore
       ELSE /\ regStore' = UpsertRows(regStore, values, "sid", now)
            /\ UNCHANGED countryStore
    /\ writes' = Append(writes, [table |-> kind, values |-> values,
                                 at |-> now])

\* `finally: await client.close()` is over.  With an exception pending,
\* the handler of the sync function and then the handler of the wrapper
\* run; otherwise the wrapper goes on to the upsert and awaits db.execute.
Close(j) ==
    /\ run[j].pc = "closing"
    /\ LET r == run[j]
           values == IF r.kind = "types" THEN CountryValues(r.ret)
                     ELSE RegulationValues(r.ret)
       IN  IF r.exc # NoExc
           THEN /\ sync_jobs' = [sync_jobs EXCEPT ![j] =
                      WrapperFail(SyncFail(@, r.exc), r.exc)]
                /\ run' = [run EXCEPT ![j].pc = "done",
                                      ![j].closes = r.closes + 1]
           ELSE /\ UNCHANGED sync_jobs
                /\ run' = [run EXCEPT
                      ![j].pc = IF Len(values) > 0 THEN "upsert" ELSE "done",
                      ![j].upsert = IF Len(values) > 0 THEN "none" ELSE "skipped",
                      ![j].closes = r.closes + 1]
    /\ UNCHANGED <<provider, countryStore, regStore, callers,
                   client, now, writes>>

\* db.execute(stmt) and db.commit() of the upsert are over: the statement
\* is committed, or the store has raised and the wrapper's handler runs.
Upsert(j, outcome) ==
    /\ run[j].pc = "upsert"
    /\ outcome \in provider.db
    /\ LET r == run[j]
           key == IF r.kind = "types" THEN "country_code" ELSE "sid"
           values == IF r.kind = "types" THEN CountryValues(r.ret)
                     ELSE RegulationValues(r.ret)
       IN  IF outcome = "ok" /\ ~HasDuplicateKey(values, key)
           THEN /\ run' = [run EXCEPT ![j].pc = "done",
                                      ![j].upsert = "committed"]
                /\ CommitUpsert(r.kind, values)
                /\ UNCHANGED sync_jobs
           ELSE /\ run' = [run EXCEPT ![j].pc = "done", ![j].upsert = "failed"]
                /\ sync_jobs' = [sync_jobs EXCEPT ![j] = WrapperFail(@, DbErrorMsg)]
                /\ UNCHANGED <<countryStore, regStore, writes>>
    /\ UNCHANGED <<provider, callers, client, now>>

\* No call of a TwilioClient method is observed on its own.
NoCall == [op |-> "none", pc |-> "idle"]

\* ------------------------------------------------- the pipeline model
EmptyDict == [x \in {} |-> x]

SeqsUpTo(S, n) == UNION {[1..k -> S] : k \in 0..n}

\* A provider that may answer every request in every way, with any
\* enumeration of at most MaxCountries entries on at most MaxPages pages.
AnyProvider ==
    [may |-> [c \in Codes \cup {"countries"} |-> RespKinds],
     catalog |-> SeqsUpTo(Entries, MaxCountries),
     max_countries |-> MaxCountries, max_pages |-> MaxPages,
     headers |-> RetryAfterValues, db |-> {"ok", "fault"}]

\* A provider without transient faults that enumerates one country on one
\* page.
PlainProvider ==
    [may |-> [c \in Codes \cup {"countries"} |-> {"ok", "http_error"}],
     catalog |-> {<<CodeOf(1)>>},
     max_countries |-> 1, max_pages |-> 1,
     headers |-> {NoHeader}, db |-> {"ok", "fault"}]

\* The service after start-up: no job, empty tables.  Either one trigger
\* call against any provider, or MaxJobs trigger calls, whose background
\* tasks run concurrently, against the plain one.
Init ==
    /\ sync_jobs = EmptyDict
    /\ run = EmptyDict
    /\ \/ callers = 1 /\ provider = AnyProvider
       \/ callers = MaxJobs /\ provider = PlainProvider
    /\ countryStore = {}
    /\ regStore = {}
    /\ client = NoCall
    /\ now = 0
    /\ writes = <<>>

\* The Retry-After headers an answer of kind `kind` may carry.
Headers(kind) == IF kind = "rate_limited" THEN provider.headers ELSE {NoHeader}

\* What an answer of kind `kind` to a page request of list_countries holds.
EnumPages(kind) == IF kind = "ok" THEN provider.catalog ELSE {<<>>}
EnumMore(kind) == IF kind = "ok" THEN BOOLEAN ELSE {FALSE}

Next ==
    \/ \E kind \in {"types", "regs"} : Trigger(kind)
    \/ \E j \in Jobs : StartTask(j)
    \/ \E j \in Jobs, kind \in RespKinds :
          \E header \in Headers(kind), page \in EnumPages(kind),
             more \in EnumMore(kind) :
             EnumResponse(j, kind, header, page, more)
    \/ \E j \in Jobs : EnumWake(j)
    \/ \E j \in Jobs : Admit(j)
    \/ \E j \in Jobs, kind \in RespKinds :
          \E i \in DOMAIN run[j].tasks, header \in Headers(kind) :
             TaskResponse(j, i, kind, header)
    \/ \E j \in Jobs : \E i \in DOMAIN run[j].tasks : TaskWake(j, i)
    \/ \E j \in Jobs : Aggregate(j)
    \/ \E j \in Jobs : Close(j)
    \/ \E j \in Jobs, outcome \in {"ok", "fault"} : Upsert(j, outcome)

Spec == Init /\ [][Next]_vars


\* Every step of the background task of job j.
JobStep(j) ==
    /\ j \in Jobs
    /\ \/ StartTask(j)
       \/ \E kind \in RespKinds :
             \E header \in Headers(kind), page \in EnumPages(kind),
                more \in EnumMore(kind) :
                EnumResponse(j, kind, header, page, more)
       \/ EnumWake(j)
       \/ Admit(j)
       \/ \E kind \in RespKinds :
             \E i \in DOMAIN run[j].tasks, header \in Headers(kind) :
                TaskResponse(j, i, kind, header)
       \/ \E i \in DOMAIN run[j].tasks : TaskWake(j, i)
       \/ Aggregate(j)
       \/ Close(j)
       \/ \E outcome \in {"ok", "fault"} : Upsert(j, outcome)

\* The event loop resumes every coroutine that is ready; the provider and
\* the store answer every request, and every timer expires.  Callers are
\* free never to trigger.
FairSpec == Spec /\ \A j \in 1..MaxJobs : WF_vars(JobStep(j))

\* --------------------------------------------------- the fan-out model
\* One sync job at the moment list_countries has returned FanoutCountries
\* entries (sync_task.py:57-92): a fan-out of more countries than the
\* semaphore admits.  The second country answers with transient faults at
\* will (network errors in the number-type sync, 429 with Retry-After: 2 in
\* the regulation sync), every third country with a permanent fault, the
\* others with their payload; the fifth entry carries no country code.
FanoutIdx == 1..FanoutCountries
FanoutFlaky == {CodeOf(2)}
FanoutBroken == {CodeOf(i) : i \in {k \in FanoutIdx : k % 3 = 0}}
FanoutNoCode == {5}

FanoutProvider(kind) ==
    [may |-> [c \in {CodeOf(i) : i \in FanoutIdx} \cup {"countries"} |->
                IF c \in FanoutFlaky
                THEN {"ok", IF kind = "types" THEN "network" ELSE "rate_limited"}
                ELSE IF c \in FanoutBroken THEN {"http_error"} ELSE {"ok"}],
     catalog |-> {<<>>}, max_countries |-> FanoutCountries, max_pages |-> 1,
     headers |-> {"2"}, db |-> {"ok", "fault"}]

FanoutCountryList ==
    [i \in FanoutIdx |-> IF i \in FanoutNoCode THEN NoCode ELSE CodeOf(i)]

FanoutInit ==
    \E kind \in {"types", "regs"} :
       /\ sync_jobs = DictSet(EmptyDict, 1,
             [NewJobRecord(1) EXCEPT
                 !.countries_total = <<Len(FanoutCountryList)>>])
       /\ run = DictSet(EmptyDict, 1,
             StartFanout([IdleRun EXCEPT !.kind = kind], FanoutCountryList))
       /\ provider = FanoutProvider(kind)
       /\ countryStore = {}
       /\ regStore = {}
       /\ callers = 0
       /\ client = NoCall
       /\ now = 0
       /\ writes = <<>>

FanoutNext ==
    \/ \E j \in Jobs : Admit(j)
    \/ \E j \in Jobs, kind \in RespKinds :
          \E i \in DOMAIN run[j].tasks, header \in Headers(kind) :
             TaskResponse(j, i, kind, header)
    \/ \E j \in Jobs : \E i \in DOMAIN run[j].tasks : TaskWake(j, i)
    \/ \E j \in Jobs : Aggregate(j)
    \/ \E j \in Jobs : Close(j)
    \/ \E j \in Jobs, outcome \in {"ok", "fault"} : Upsert(j, outcome)

FanoutSpec == FanoutInit /\ [][FanoutNext]_vars


FairFanoutSpec == FanoutSpec /\ WF_vars(JobStep(1))


\* --------------------------------------------------- the registry model
\* MaxJobs trigger calls against the plain provider, which answers every
\* request at once, while callers poll the status of a job and list the
\* jobs; the last response of a read endpoint is in `client`.
MaxLimit == 3           \* the largest limit a caller of list_sync_jobs passes

\* list(sync_jobs.items()): the records in the order of their creation,
\* which is the order of a dict.
RECURSIVE Items(_)
Items(ids) ==
    IF ids = {} THEN <<>>
    ELSE LET last == CHOOSE j \in ids : \A k \in ids :
                        sync_jobs[k].started_at <= sync_jobs[j].started_at
         IN  Append(Items(ids \ {last}), last)

\* s[start:] of Python: a negative start counts from the end.
SliceFrom(s, start) ==
    LET from == IF start < 0
                THEN (IF Len(s) + start > 0 THEN Len(s) + start ELSE 0)
                ELSE (IF start < Len(s) THEN start ELSE Len(s))
    IN  SubSeq(s, from + 1, Len(s))

\* GET /sync (sync.py:172-200): list(sync_jobs.items())[-limit:].
list_sync_jobs(limit) ==
    LET jobs == SliceFrom(Items(DOMAIN sync_jobs), 0 - limit)
    IN  [jobs |-> [i \in DOMAIN jobs |->
                     [job_id |-> jobs[i],
                      status |-> sync_jobs[jobs[i]].status,
                      started_at |-> sync_jobs[jobs[i]].started_at,
                      completed_at |-> sync_jobs[jobs[i]].completed_at,
                      countries_processed |->
                         sync_jobs[jobs[i]].countries_processed,
                      countries_total |-> sync_jobs[jobs[i]].countries_total]]]

\* A caller polls the status of a job.
PollStatus(job_id) ==
    /\ client' = [op |-> "get_sync_status", args |-> [job_id |-> job_id],
                  pc |-> "returned",
                  status_code |-> get_sync_status(job_id).status_code,
                  body |-> get_sync_status(job_id).body]
    /\ UNCHANGED <<sync_jobs, run, provider, countryStore, regStore, callers,
                   now, writes>>

\* A caller lists the jobs.
ListJobs(limit) ==
    /\ client' = [op |-> "list_sync_jobs", args |-> [limit |-> limit],
                  pc |-> "returned", status_code |-> 200,
                  body |-> list_sync_jobs(limit).jobs]
    /\ UNCHANGED <<sync_jobs, run, provider, countryStore, regStore, callers,
                   now, writes>>

RegistryInit ==
    /\ sync_jobs = EmptyDict
    /\ run = EmptyDict
    /\ callers = MaxJobs
    /\ provider = PlainProvider
    /\ countryStore = {}
    /\ regStore = {}
    /\ client = NoCall
    /\ now = 0
    /\ writes = <<>>

\* The steps of the pipeline against the plain provider, where no request
\* is retried and no coroutine sleeps, and the two read endpoints.
RegistryNext ==
    \/ \E kind \in {"types", "regs"} : Trigger(kind)
    \/ \E j \in Jobs : StartTask(j)
    \/ \E j \in Jobs, kind \in RespKinds :
          \E header \in Headers(kind), page \in EnumPages(kind),
             more \in EnumMore(kind) :
             EnumResponse(j, kind, header, page, more)
    \/ \E j \in Jobs : Admit(j)
    \/ \E j \in Jobs, kind \in RespKinds :
          \E i \in DOMAIN run[j].tasks, header \in Headers(kind) :
             TaskResponse(j, i, kind, header)
    \/ \E j \in Jobs : Aggregate(j)
    \/ \E j \in Jobs : Close(j)
    \/ \E j \in Jobs, outcome \in {"ok", "fault"} : Upsert(j, outcome)
    \/ \E job_id \in 1..(MaxJobs + 1) : PollStatus(job_id)
    \/ \E limit \in (0 - 1)..MaxLimit : ListJobs(limit)

RegistrySpec == RegistryInit /\ [][RegistryNext]_vars

\* ---------------------------------------------------- the adapter model
\* One call of a method of TwilioClient, observed on its own from the call
\* to its return or raise: list_countries, get_country_details and
\* list_regulations against a provider that may answer every request in
\* every way, and extract_number_types on any payload.
ChainPages == 3         \* pages of a listing in the adapter model
PageItems == 2          \* items on a page of a listing in the adapter model

RequestOps ==
    {"list_countries", "get_country_details", "list_regulations",
     "search_numbers"}

EmptyQuery == [k \in {} |-> ""]

\* The query string of the request httpx sends for `url` with `params`:
\* the query of the URL with the params merged into it.
Query(url, params) ==
    [k \in DOMAIN url.query \cup DOMAIN params |->
       IF k \in DOMAIN params THEN params[k] ELSE url.query[k]]

\* params of list_regulations (twilio_client.py:203-210).
RegulationParamsByCaller(country_code, number_type, include_constraints) ==
    LET base == [EndUserType |-> "business", IsoCountry |-> country_code,
                 IncludeConstraints |->
                    IF include_constraints THEN "true" ELSE "false"]
    IN  IF number_type # None
        THEN [base EXCEPT !.EndUserType = "individual"]
                @@ [NumberType |-> number_type]
        ELSE base
RegulationParams(country_code, number_type, include_constraints) ==
    LET base == [EndUserType |-> "business", IsoCountry |-> country_code,
                 IncludeConstraints |->
                    IF include_constraints THEN "true" ELSE "false"]
    IN  IF number_type # None
        THEN base @@ [NumberType |-> number_type]
        ELSE base

\* The request of one attempt of _make_request, sent `at` time units after
\* the call of _make_request.
Attempt(at, rc, url, params) ==
    [at |-> at, rc |-> rc, page |-> url.page, query |-> Query(url, params)]

\* A method of the client at its first await: the first request is out.
\*   attempts  the requests of the pending _make_request call
\*   log       the responses to them, with their arrival times
\*   elapsed   time units since the pending _make_request was called
\*   calls     the _make_request calls of the method so far
\*   served    the pages the provider has served, in order
NewCall(op, args, chain, url, params) ==
    [op |-> op, args |-> args, chain |-> chain, pc |-> "request",
     url |-> url, params |-> params, rc |-> 0, wait |-> 0, elapsed |-> 0,
     attempts |-> <<Attempt(0, 0, url, params)>>, log |-> <<>>, calls |-> 1,
     served |-> <<>>, all |-> <<>>, result |-> <<>>, fault |-> NoExc]

\* The loop of a listing goes round: _make_request is called for `url`.
NextCall(c, url, params) ==
    [c EXCEPT !.pc = "request", !.url = url, !.params = params, !.rc = 0,
              !.wait = 0, !.elapsed = 0,
              !.attempts = <<Attempt(0, 0, url, params)>>, !.log = <<>>,
              !.calls = c.calls + 1]

Args(country_code, number_type, include_constraints) ==
    [country_code |-> country_code, number_type |-> number_type,
     include_constraints |-> include_constraints]

list_countries(chain) ==
    NewCall("list_countries", Args(None, None, TRUE), chain,
            [path |-> "/AvailablePhoneNumbers.json", query |-> EmptyQuery,
             page |-> 1],
            EmptyQuery)

get_country_details(country_code) ==
    NewCall("get_country_details", Args(country_code, None, TRUE), <<>>,
            [path |-> "/AvailablePhoneNumbers/" \o country_code \o ".json",
             query |-> EmptyQuery, page |-> 1],
            EmptyQuery)

list_regulations(country_code, number_type, include_constraints) ==
    NewCall("list_regulations",
            Args(country_code, number_type, include_constraints),
            RegPagesOf(country_code),
            [path |-> "/v2/RegulatoryCompliance/Regulations",
             query |-> EmptyQuery, page |-> 1],
            RegulationParams(country_code, number_type, include_constraints))

\* str.upper() on the spellings of a country code: the code itself, the
\* code in lower case and the code with a lower-case second letter.
LowerList ==
    <<"ad", "ae", "af", "ag", "ai", "al", "am", "ao", "ar", "at", "au", "az",
      "ba", "bb">>
MixedList ==
    <<"Ad", "Ae", "Af", "Ag", "Ai", "Al", "Am", "Ao", "Ar", "At", "Au", "Az",
      "Ba", "Bb">>
Spellings(code) ==
    UNION {{CodeList[i], LowerList[i], MixedList[i]} :
              i \in {x \in DOMAIN CodeList : CodeList[x] = code}}
UpperKeepsCase(text) == text
Upper(text) ==
    IF \E i \in DOMAIN CodeList : text \in {LowerList[i], MixedList[i]}
    THEN CodeList[CHOOSE i \in DOMAIN CodeList :
                     text \in {LowerList[i], MixedList[i]}]
    ELSE text

\* type_mapping of search_available_numbers (twilio_client.py:259-263).
type_mapping ==
    [x \in {"mobile", "local", "toll-free"} |->
       CASE x = "mobile" -> "Mobile"
         [] x = "local" -> "Local"
         [] OTHER -> "TollFree"]

\* params of search_available_numbers (twilio_client.py:276-280): an
\* optional filter is <<>> for None and <<b>> for the boolean b, which
\* httpx writes as "true" or "false".
SearchParams(sms_enabled, voice_enabled) ==
    LET Flag(b) == IF b THEN "true" ELSE "false"
        Sms == IF sms_enabled = <<>> THEN EmptyQuery
               ELSE [k \in {"SmsEnabled"} |-> Flag(sms_enabled[1])]
        Voice == IF voice_enabled = <<>> THEN EmptyQuery
                 ELSE [k \in {"VoiceEnabled"} |-> Flag(voice_enabled[1])]
    IN  Sms @@ Voice

\* The listing of available numbers the provider holds: two pages of one
\* number, a number being known by its page and its place on it.
NumberPages ==
    <<<<[page |-> 1, item |-> 1]>>, <<[page |-> 2, item |-> 1]>>>>

\* The exception classes of a fault of a search, from the class of the
\* fault up to Exception: TwilioRateLimitError is a subclass of
\* TwilioAPIError (twilio_client.py:12-19).
ExcClass(fault) ==
    CASE fault = RateLimitMsg -> "TwilioRateLimitError"
      [] fault \in {ApiErrorMsg, RequestErrorMsg} -> "TwilioAPIError"
      [] OTHER -> "Exception"
Bases(cls) ==
    CASE cls = "TwilioRateLimitError" ->
            {"TwilioRateLimitError", "TwilioAPIError", "Exception"}
      [] cls = "TwilioAPIError" -> {"TwilioAPIError", "Exception"}
      [] OTHER -> {"Exception"}

\* The except clauses of search_numbers in the order of the source
\* (numbers.py:103-111), with the status of the HTTPException each raises.
SearchNumbersHandlers ==
    <<[cls |-> "TwilioAPIError", status_code |-> 400],
      [cls |-> "TwilioRateLimitError", status_code |-> 429],
      [cls |-> "Exception", status_code |-> 500]>>

\* The status of the first except clause that matches the fault.
StatusFor(fault) ==
    LET match == {i \in DOMAIN SearchNumbersHandlers :
                    SearchNumbersHandlers[i].cls \in Bases(ExcClass(fault))}
        first == CHOOSE i \in match : \A k \in match : i <= k
    IN  SearchNumbersHandlers[first].status_code

\* The endpoint search_numbers at the first await of the call
\* client.search_available_numbers(country_code.upper(), number_type,
\* sms_enabled, voice_enabled) it makes (numbers.py:51-61,
\* twilio_client.py:259-289).
search_numbers(country_code, number_type, sms_enabled, voice_enabled) ==
    NewCall("search_numbers",
            [country_code |-> country_code, number_type |-> number_type,
             sms_enabled |-> sms_enabled, voice_enabled |-> voice_enabled],
            NumberPages,
            [path |-> "/AvailablePhoneNumbers/" \o Upper(country_code) \o "/"
                         \o type_mapping[number_type] \o ".json",
             query |-> EmptyQuery, page |-> 1],
            SearchParams(sms_enabled, voice_enabled))
       @@ [status_code |-> 0, closes |-> 0]

\* The provider's link to the page after the one `url` names: the URL of
\* the request with its whole query, and the next page token.
NextPageUrl(url, query) ==
    [path |-> url.path, query |-> query, page |-> url.page + 1]

\* The provider serves the page the URL names; it links a next page iff
\* the listing has one.
HasNextPage(c) == c.url.page < Len(c.chain)

\* list_countries has the data of a page (twilio_client.py:126-138).
OnCountriesPageLastOnly(c) ==
    LET d == [c EXCEPT !.all = c.chain[c.url.page],
                       !.served = Append(c.served, c.url.page)]
    IN  IF HasNextPage(c)
        THEN NextCall(d, [c.url EXCEPT !.page = c.url.page + 1], c.params)
        ELSE [d EXCEPT !.pc = "returned", !.result = d.all]
OnCountriesPage(c) ==
    LET d == [c EXCEPT !.all = c.all \o c.chain[c.url.page],
                       !.served = Append(c.served, c.url.page)]
    IN  IF HasNextPage(c)
        THEN NextCall(d, [c.url EXCEPT !.page = c.url.page + 1], c.params)
        ELSE [d EXCEPT !.pc = "returned", !.result = d.all]

\* list_regulations has the data of a page (twilio_client.py:217-233):
\* the next request goes to next_page_url, with empty params.
OnRegulationsPage(c) ==
    LET d == [c EXCEPT !.all = c.all \o c.chain[c.url.page],
                       !.served = Append(c.served, c.url.page)]
    IN  IF HasNextPage(c)
        THEN NextCall(d, NextPageUrl(c.url, Query(c.url, c.params)),
                      EmptyQuery)
        ELSE [d EXCEPT !.pc = "returned", !.result = d.all]

\* get_country_details has its data (twilio_client.py:152-155).
OnCountryDetails(c) ==
    [c EXCEPT !.pc = "returned",
              !.result = <<DetailOf(c.args.country_code)>>]

\* search_available_numbers has the data of a page
\* (twilio_client.py:296-330): the next request goes to next_page_uri, with
\* empty params.
OnNumbersPage(c) ==
    LET d == [c EXCEPT !.all = c.all \o c.chain[c.url.page],
                       !.served = Append(c.served, c.url.page)]
    IN  IF HasNextPage(c)
        THEN NextCall(d, NextPageUrl(c.url, Query(c.url, c.params)),
                      EmptyQuery)
        ELSE [d EXCEPT !.pc = "returned", !.result = d.all]

\* The exit of search_numbers (numbers.py:100-114): the list of numbers is
\* returned, or the first matching except clause raises its HTTPException;
\* the finally clause closes the client.
SearchNumbersExit(c) ==
    IF c.op # "search_numbers" \/ c.pc \notin {"returned", "raised"} THEN c
    ELSE [c EXCEPT !.status_code = IF c.pc = "returned" THEN 200
                                    ELSE StatusFor(c.fault),
                   !.closes = c.closes + 1]

\* The response to the pending request of the call arrives.
ClientResponse(kind, header) ==
    /\ client.op \in RequestOps
    /\ client.pc = "request"
    /\ LET step == MakeRequest(client.rc, kind, header)
           c == [client EXCEPT !.log =
                    Append(@, [kind |-> kind, header |-> header,
                               at |-> client.elapsed])]
       IN  client' = SearchNumbersExit(
              CASE step.next = "sleep" ->
                     [c EXCEPT !.pc = "sleep", !.wait = step.wait]
                [] step.next = "raise" ->
                     [c EXCEPT !.pc = "raised", !.fault = step.fault]
                [] kind = "malformed" ->
                     [c EXCEPT !.pc = "raised", !.fault = JsonErrorMsg]
                [] c.op = "list_countries" -> OnCountriesPage(c)
                [] c.op = "list_regulations" -> OnRegulationsPage(c)
                [] c.op = "search_numbers" -> OnNumbersPage(c)
                [] OTHER -> OnCountryDetails(c))
    /\ UNCHANGED <<sync_jobs, run, provider, countryStore, regStore, callers,
                   now, writes>>

\* asyncio.sleep(wait) of the call is over, `wait` time units after it
\* began: the recursive call of _make_request sends the request again.
ClientWake ==
    /\ client.op \in RequestOps
    /\ client.pc = "sleep"
    /\ LET at == client.elapsed + client.wait
           rc == NextRetry(client.rc)
       IN  client' = [client EXCEPT
              !.pc = "request", !.rc = rc, !.wait = 0, !.elapsed = at,
              !.attempts = Append(@, Attempt(at, rc, client.url,
                                             client.params))]
    /\ UNCHANGED <<sync_jobs, run, provider, countryStore, regStore, callers,
                   now, writes>>

\* extract_number_types(country_data) is called and returns.
ClientExtract ==
    /\ client.op = "extract_number_types"
    /\ client.pc = "called"
    /\ client' = [client EXCEPT
          !.pc = "returned",
          !.result = extract_number_types(client.country_data)]
    /\ UNCHANGED <<sync_jobs, run, provider, countryStore, regStore, callers,
                   now, writes>>

\* The listings a provider may hold: up to ChainPages pages of up to
\* PageItems items, an item being known by its page and its place on it.
ChainOf(lens) ==
    [p \in DOMAIN lens |->
       [k \in 1..lens[p] |-> [page |-> p, item |-> k]]]
CountryChains ==
    {ChainOf(lens) :
        lens \in UNION {[1..n -> 0..PageItems] : n \in 1..ChainPages}}

\* The payloads extract_number_types may be handed: any sub-resource map
\* over the seven names and a foreign one, or no map at all.
Payloads ==
    {[country |-> "one", beta |-> FALSE, subresource_uris |-> uris] :
        uris \in SUBSET (NumberTypes \cup {"other"})}
       \cup {[country |-> "one", beta |-> FALSE]}

ClientCalls ==
    {list_countries(chain) : chain \in CountryChains}
       \cup {get_country_details(code) : code \in Codes}
       \cup {list_regulations(code, number_type, include_constraints) :
                code \in Codes, number_type \in {None, "mobile"},
                include_constraints \in BOOLEAN}
       \cup {search_numbers(country_code, number_type, sms_enabled, <<>>) :
                country_code \in Spellings(CodeOf(1)),
                number_type \in {"mobile", "toll-free"},
                sms_enabled \in {<<>>, <<TRUE>>}}
       \cup {[op |-> "extract_number_types", pc |-> "called",
               country_data |-> country_data, result |-> <<>>] :
                 country_data \in Payloads}

ClientInit ==
    /\ sync_jobs = EmptyDict
    /\ run = EmptyDict
    /\ provider = AnyProvider
    /\ countryStore = {}
    /\ regStore = {}
    /\ callers = 0
    /\ client \in ClientCalls
    /\ now = 0
    /\ writes = <<>>

ClientNext ==
    \/ \E kind \in RespKinds : \E header \in Headers(kind) :
          ClientResponse(kind, header)
    \/ ClientWake
    \/ ClientExtract

ClientSpec == ClientInit /\ [][ClientNext]_vars

\* The provider answers every request, or the transport reports an error,
\* and every timer of asyncio.sleep expires.
FairClientSpec == ClientSpec /\ WF_vars(ClientNext)

\* ------------------------------------------------------ the store model
\* The two upsert functions called on their own, one call after the other,
\* with any batch of at most MaxBatch records, while the clock of the
\* database goes on.
MaxWrites == 2          \* committed upsert statements in the store model
MaxBatch == 2           \* records in the batch handed to an upsert
MaxClock == 2           \* ticks of the database clock in the store model

\* The clock of the database advances.
Tick ==
    /\ now < MaxClock
    /\ now' = now + 1
    /\ UNCHANGED <<sync_jobs, run, provider, countryStore, regStore, callers,
                   client, writes>>

\* One call of an upsert function as its caller and the session see it:
\* the batch handed over, whether the call returned or raised, and how
\* many times db.execute and db.commit were called.
UpsertCall(op, data, pc, statements, commits) ==
    [op |-> op, data |-> data, pc |-> pc,
     statements |-> statements, commits |-> commits]

\* The body both upsert functions share, from the call to its return or
\* raise: an early return when there is nothing to write; otherwise
\* db.execute(stmt), which raises on a fault of the session or on a
\* statement the database rejects and leaves the table as it was, and
\* then db.commit().
UpsertBatch(op, kind, key, data, values, outcome) ==
    /\ Len(writes) < MaxWrites
    /\ IF NothingToWrite(data, values)
       THEN /\ client' = UpsertCall(op, data, "returned", 0, 0)
            /\ UNCHANGED <<countryStore, regStore, writes>>
       ELSE IF outcome = "ok" /\ ~HasDuplicateKey(values, key)
       THEN /\ client' = UpsertCall(op, data, "returned", 1, 1)
            /\ CommitUpsert(kind, values)
       ELSE /\ client' = UpsertCall(op, data, "raised", 1, 0)
            /\ UNCHANGED <<countryStore, regStore, writes>>
    /\ UNCHANGED <<sync_jobs, run, provider, callers, now>>

\* upsert_countries_to_db(db, countries_data).
upsert_countries_to_db(countries_data, outcome) ==
    UpsertBatch("upsert_countries_to_db", "types", "country_code",
                countries_data, CountryValues(countries_data), outcome)

\* upsert_regulations_to_db(db, regulations_data): the records without a
\* sid are left out of the statement.
upsert_regulations_to_db(regulations_data, outcome) ==
    UpsertBatch("upsert_regulations_to_db", "regs", "sid",
                regulations_data, RegulationValues(regulations_data), outcome)

\* The records a caller may hand to upsert_countries_to_db: a country code
\* with the name, beta flag and number types of any of the payloads.
CountryRecords ==
    {CountryData(code, DetailOf(other)) : code \in Codes, other \in Codes}

\* The records a caller may hand to upsert_regulations_to_db: with a sid,
\* with a sid that is None or empty or with no sid key, with end_user_type
\* business, another one, or none, and with or without the keys of the
\* requirement structure and the name.
Without(reg, keys) == [k \in DOMAIN reg \ keys |-> reg[k]]
WithoutEndUserType(reg) == Without(reg, {"end_user_type"})
RegulationRecords ==
    LET full == {RegOf(CodeOf(1), n, sid) : n \in {1, 2}, sid \in {"RN1", None}}
    IN  full \cup {WithoutEndUserType(reg) : reg \in full}
             \cup {Without(RegOf(CodeOf(1), 1, "RN1"),
                           {"requirements", "friendly_name"}),
                   Without(RegOf(CodeOf(1), 1, "RN1"), {"sid"}),
                   RegOf(CodeOf(1), 1, "")}

StoreInit ==
    /\ sync_jobs = EmptyDict
    /\ run = EmptyDict
    /\ provider = PlainProvider
    /\ countryStore = {}
    /\ regStore = {}
    /\ callers = 0
    /\ client = NoCall
    /\ now = 0
    /\ writes = <<>>

StoreNext ==
    \/ Tick
    \/ \E countries_data \in SeqsUpTo(CountryRecords, MaxBatch),
          outcome \in {"ok", "fault"} :
          upsert_countries_to_db(countries_data, outcome)
    \/ \E regulations_data \in SeqsUpTo(RegulationRecords, MaxBatch),
          outcome \in {"ok", "fault"} :
          upsert_regulations_to_db(regulations_data, outcome)

StoreSpec == StoreInit /\ [][StoreNext]_vars

\* ------------------------------------------------------ the query model
\* The read endpoints get_country and get_regulations, called one after the
\* other with a country code in any spelling, on any store the sync
\* pipelines may have written.
QueryRegs == 3          \* regulations of the first country in the query model

\* The fields of CountryNumberTypesResponse and of RegulationResponse
\* (schemas.py:8-32, 55-71), which model_validate reads from a row.
CountryResponseFields ==
    {"country_code", "country", "beta", "last_updated"} \cup NumberTypes
RegulationResponseFields ==
    {"sid", "friendly_name", "iso_country", "number_type", "end_user_type",
     "requirements", "url", "last_updated"}
ModelValidate(row, fields) == [f \in fields |-> row[f]]

\* A response of a read endpoint: the status and the rows of the body.
QueryResponse(op, args, status_code, body) ==
    [op |-> op, args |-> args, pc |-> "returned",
     status_code |-> status_code, body |-> body]

\* get_country (countries.py:65-88).
GetCountry(country_code) ==
    LET found == {row \in countryStore :
                     row.country_code = Upper(country_code)}
        args == [country_code |-> country_code]
    IN  IF found = {}
        THEN QueryResponse("get_country", args, 404, {})
        ELSE QueryResponse("get_country", args, 200,
                {ModelValidate(row, CountryResponseFields) : row \in found})

\* available_types of get_regulations (regulations.py:76-89): the names of
\* the flags that are true in the row of the country.
AvailableTypesAll(country_types) == NumberTypes
AvailableTypes(country_types) ==
    {type_name \in NumberTypes : country_types[type_name]}

\* The rows the query of get_regulations selects (regulations.py:51-106).
SelectRegulations(country_code, number_type, only_available_types) ==
    LET code == Upper(country_code)
        base == {row \in regStore :
                    row.iso_country = code /\ row.end_user_type = "business"}
        typed == IF number_type \notin {None, ""}
                 THEN {row \in base : row.number_type = number_type}
                 ELSE base
        country_types == {row \in countryStore : row.country_code = code}
    IN  IF only_available_types /\ country_types # {}
        THEN LET available_types ==
                    AvailableTypes(CHOOSE row \in country_types : TRUE)
             IN  IF available_types # {}
                 THEN {row \in typed :
                          \/ row.number_type \in available_types
                          \/ row.number_type = None}
                 ELSE {row \in typed : row.number_type = None}
        ELSE typed

\* get_regulations (regulations.py:24-115): 404 when the query selects no
\* row.
GetRegulations(country_code, number_type, only_available_types) ==
    LET regulations ==
            SelectRegulations(country_code, number_type, only_available_types)
        args == [country_code |-> country_code, number_type |-> number_type,
                 only_available_types |-> only_available_types]
    IN  IF regulations = {}
        THEN QueryResponse("get_regulations", args, 404, {})
        ELSE QueryResponse("get_regulations", args, 200,
                {ModelValidate(row, RegulationResponseFields) :
                    row \in regulations})

get_country(country_code) ==
    /\ client' = GetCountry(country_code)
    /\ UNCHANGED <<sync_jobs, run, provider, countryStore, regStore, callers,
                   now, writes>>

get_regulations(country_code, number_type, only_available_types) ==
    /\ client' = GetRegulations(country_code, number_type,
                                only_available_types)
    /\ UNCHANGED <<sync_jobs, run, provider, countryStore, regStore, callers,
                   now, writes>>

\* The tables a number-type sync may have left: at most one row per country
\* code, with any of these sets of sub-resources.
QueryFlagSets == {{}, {"mobile"}, {"local", "toll_free"}}
QueryCountryRow(code, uris) ==
    CountryData(code, [country |-> "one", beta |-> FALSE,
                       subresource_uris |-> uris])
QueryCountryStores ==
    {{QueryCountryRow(v[1], v[2]) @@ [last_updated |-> 0] : v \in chosen} :
        chosen \in
          {first \cup second :
              first \in {{}} \cup {{<<CodeOf(1), uris>>} :
                                      uris \in QueryFlagSets},
              second \in {{}, {<<CodeOf(2), {"mobile"}>>}}}}

\* The tables a regulation sync may have left: rows as process_country_
\* regulations prepares them, each with its own sid, for regulations of any
\* number type of the first country and one regulation of the second.
QueryRegTypes == <<"mobile", None, "toll_free", "local">>
QuerySids == <<"RN1", "RN2", "RN3", "RN4", "RN5">>
QueryRegulation(code, n, k) ==
    PrepareRegulation([RegOf(code, 1, QuerySids[k]) EXCEPT
                          !.number_type = QueryRegTypes[n]])
QueryRegStores ==
    {{value @@ [last_updated |-> 0] : value \in chosen} :
        chosen \in SUBSET ({QueryRegulation(CodeOf(1), n, n) :
                               n \in 1..QueryRegs}
                             \cup {QueryRegulation(CodeOf(2), 1,
                                                   QueryRegs + 1)})}

QueryInit ==
    /\ sync_jobs = EmptyDict
    /\ run = EmptyDict
    /\ provider = PlainProvider
    /\ countryStore \in QueryCountryStores
    /\ regStore \in QueryRegStores
    /\ callers = 0
    /\ client = NoCall
    /\ now = 0
    /\ writes = <<>>

QueryNext ==
    \/ \E code \in Codes \cup {CodeList[Len(CodeList)]} :
          \E country_code \in Spellings(code) : get_country(country_code)
    \/ \E code \in Codes : \E country_code \in Spellings(code) :
          \E number_type \in {None, "", "mobile"} :
             \E only_available_types \in BOOLEAN :
                get_regulations(country_code, number_type,
                                only_available_types)

QuerySpec == QueryInit /\ [][QueryNext]_vars

\* ------------------------------------------------------ the rerun model
\* A sync is triggered, runs to its end, and is triggered again, against a
\* provider that answers every request and a store that commits every
\* statement it accepts, while the clock of the database goes on.
Reruns == 2             \* sync runs of the rerun model, one after the other

FaultFreeProvider ==
    [may |-> [c \in Codes \cup {"countries"} |-> {"ok"}],
     catalog |-> SeqsUpTo(Entries, MaxCountries),
     max_countries |-> MaxCountries, max_pages |-> MaxPages,
     headers |-> {NoHeader}, db |-> {"ok"}]

RerunInit ==
    /\ sync_jobs = EmptyDict
    /\ run = EmptyDict
    /\ callers = Reruns
    /\ provider = FaultFreeProvider
    /\ countryStore = {}
    /\ regStore = {}
    /\ client = NoCall
    /\ now = 0
    /\ writes = <<>>

\* The caller triggers a sync of the kind of the runs before, all of which
\* have ended.
TriggerAgain(kind) ==
    /\ \A j \in Jobs : run[j].pc = "done" /\ run[j].kind = kind
    /\ Trigger(kind)

\* The steps of the pipeline where no request is retried and no coroutine
\* sleeps.
RerunNext ==
    \/ \E kind \in {"types", "regs"} : TriggerAgain(kind)
    \/ \E j \in Jobs : StartTask(j)
    \/ \E j \in Jobs, kind \in RespKinds :
          \E header \in Headers(kind), page \in EnumPages(kind),
             more \in EnumMore(kind) :
             EnumResponse(j, kind, header, page, more)
    \/ \E j \in Jobs : Admit(j)
    \/ \E j \in Jobs, kind \in RespKinds :
          \E i \in DOMAIN run[j].tasks, header \in Headers(kind) :
             TaskResponse(j, i, kind, header)
    \/ \E j \in Jobs : Aggregate(j)
    \/ \E j \in Jobs : Close(j)
    \/ \E j \in Jobs, outcome \in {"ok", "fault"} : Upsert(j, outcome)
    \/ Tick

RerunSpec == RerunInit /\ [][RerunNext]_vars

\* ============================================================ properties
Terminal == {"completed", "failed"}

\* The values the wrapper hands to the upsert of job j.
ValuesOf(j) ==
    IF run[j].kind = "types" THEN CountryValues(run[j].ret)
    ELSE RegulationValues(run[j].ret)

\* Job j is past its fan-out: gather has returned and the results have been
\* aggregated.
PastFanout(j) ==
    run[j].pc \in {"closing", "upsert", "done"} /\ run[j].exc = NoExc

Outcome(j, out) == {i \in DOMAIN run[j].tasks : run[j].tasks[i].out = out}

InWorker(j) ==
    {i \in DOMAIN run[j].tasks : run[j].tasks[i].pc \in {"request", "sleep"}}

\* C1: once the status of a job in the registry is completed or failed, no
\* later step changes it.
C1_TerminalIsPermanent ==
    [][\A j \in DOMAIN sync_jobs :
          sync_jobs[j].status \in Terminal
             => sync_jobs'[j].status = sync_jobs[j].status]_vars

\* C2: in every state where a job reads completed, the upsert of its
\* results has been committed, or there was nothing to write.
C2_CompletedAfterWrite ==
    \A j \in DOMAIN sync_jobs :
       sync_jobs[j].status = "completed"
          => run[j].upsert = "committed" \/ Len(ValuesOf(j)) = 0

\* C3: for every job identifier a trigger call has returned, a status poll
\* finds a record (it never answers not-found).
C3_PollFindsTriggeredJob ==
    \A j \in DOMAIN run : get_sync_job_status(j) # <<>>

\* C4: every triggered job eventually reaches status completed or failed.
C4_JobTerminates ==
    \A j \in 1..MaxJobs :
       (j \in DOMAIN run)
          ~> (j \in DOMAIN sync_jobs /\ sync_jobs[j].status \in Terminal)

\* A job whose enumeration used up its rate-limit retries, or whose store
\* write failed, has ended failed.
C4_Witness ==
    \E j \in DOMAIN sync_jobs :
       /\ run[j].pc = "done"
       /\ sync_jobs[j].status = "failed"
       /\ run[j].enum_fault = RateLimitMsg \/ run[j].upsert = "failed"

\* C5: at most 10 coroutines of one fan-out are inside their worker call
\* (request pending or retry sleep) at the same time.
C5_AtMostTenInWorker ==
    \A j \in DOMAIN run : Cardinality(InWorker(j)) <= ConcurrencyLimit

\* Ten coroutines are inside their worker call, one of them in a retry
\* sleep, and another coroutine waits for a slot.
C5_Witness ==
    \E j \in DOMAIN run :
       /\ Cardinality(InWorker(j)) = ConcurrencyLimit
       /\ \E i \in InWorker(j) : run[j].tasks[i].pc = "sleep"
       /\ NextWaiting(run[j].tasks) # 0


\* C6: every coroutine of a fan-out gives its slot back however it ends:
\* the slots held are at any time those of the coroutines inside their
\* worker call, so none is held when all coroutines have ended; and every
\* coroutine that waits for a slot is eventually admitted and runs to its
\* end.
C6_SlotsComeBack ==
    /\ [](\A j \in DOMAIN run :
            run[j].pc = "fanout" \/ PastFanout(j)
               => ConcurrencyLimit - run[j].sem = Cardinality(InWorker(j)))
    /\ <>(\A j \in DOMAIN run :
             \A i \in DOMAIN run[j].tasks : run[j].tasks[i].pc = "done")

\* A fan-out of more than 10 countries has finished with coroutines that
\* returned a result, that skipped their entry and that hit a fault, the
\* last of them admitted only after a slot was given back.
C6_Witness ==
    \E j \in DOMAIN run :
       /\ PastFanout(j)
       /\ Len(run[j].tasks) > ConcurrencyLimit
       /\ Outcome(j, "ok") # {} /\ Outcome(j, "skip") # {}
       /\ Outcome(j, "fail") # {}
       /\ run[j].tasks[Len(run[j].tasks)].out = "fail"
       /\ run[j].sem = ConcurrencyLimit

\* The data a coroutine that ended "ok" has returned is part of the
\* aggregate.
InAggregate(j, i) ==
    \A k \in DOMAIN run[j].tasks[i].data :
       run[j].tasks[i].data[k] \in Range(run[j].ret)

\* C7: a fault while one country is processed affects that country only:
\* every other coroutine has run to its own outcome, the results of the
\* countries that succeeded are in the aggregate, and the job is not failed
\* because of it (it is failed only if the store write failed).
C7_FaultIsolated ==
    \A j \in DOMAIN run :
       PastFanout(j) /\ Outcome(j, "fail") # {}
          => /\ \A i \in DOMAIN run[j].tasks : run[j].tasks[i].pc = "done"
             /\ \A i \in Outcome(j, "ok") :
                   run[j].tasks[i].data # <<>> /\ InAggregate(j, i)
             /\ sync_jobs[j].status = "failed" => run[j].upsert = "failed"

\* A job is completed although the first of its two countries failed.
C7_Witness ==
    \E j \in DOMAIN run :
       /\ PastFanout(j)
       /\ Outcome(j, "fail") = {1} /\ Outcome(j, "ok") = {2}
       /\ sync_jobs[j].status = "completed"

\* C8: a number-type sync over N countries that were all fetched, K of them
\* with a fault, returns N-K entries, one for each country that succeeded,
\* with countries_processed = N-K and countries_total = N.
C8_TypesCounts ==
    \A j \in DOMAIN run :
       PastFanout(j) /\ run[j].kind = "types" /\ Outcome(j, "skip") = {}
          => LET N == Len(run[j].tasks)
                 K == Cardinality(Outcome(j, "fail"))
             IN  /\ Len(run[j].ret) = N - K
                 /\ \A i \in Outcome(j, "ok") : InAggregate(j, i)
                 /\ sync_jobs[j].countries_processed = N - K
                 /\ sync_jobs[j].countries_total = <<N>>

\* A number-type sync of two countries, one of which failed.
C8_Witness ==
    \E j \in DOMAIN run :
       /\ PastFanout(j) /\ run[j].kind = "types"
       /\ Len(run[j].tasks) = 2
       /\ Cardinality(Outcome(j, "fail")) = 1
       /\ Cardinality(Outcome(j, "ok")) = 1

\* C9: a regulation sync over N countries that were all fetched, K of them
\* with a fault, has countries_processed = N-K, and its aggregate holds the
\* regulations of the N-K countries that succeeded and no others.
C9_RegsCounts ==
    \A j \in DOMAIN run :
       PastFanout(j) /\ run[j].kind = "regs" /\ Outcome(j, "skip") = {}
          => LET N == Len(run[j].tasks)
                 K == Cardinality(Outcome(j, "fail"))
             IN  /\ sync_jobs[j].countries_processed = N - K
                 /\ \A i \in Outcome(j, "ok") : InAggregate(j, i)
                 /\ Len(run[j].ret) =
                       Len(Flatten([i \in DOMAIN run[j].tasks |->
                                      IF i \in Outcome(j, "ok")
                                      THEN run[j].tasks[i].data ELSE <<>>]))

\* C10: when a page fetch of list_countries fails, no country list is
\* returned, no coroutine of the fan-out is created, nothing is written to
\* the store, and the job ends failed with the message of that fault.
C10_EnumerationAllOrNothing ==
    \A j \in DOMAIN run :
       run[j].enum_fault # NoExc
          => /\ run[j].pc \in {"closing", "done"}
             /\ run[j].all_countries = <<>>
             /\ run[j].tasks = <<>>
             /\ run[j].ret = <<>>
             /\ run[j].upsert = "none"
             /\ sync_jobs[j].countries_total = <<>>
             /\ run[j].pc = "done"
                   => /\ sync_jobs[j].status = "failed"
                      /\ sync_jobs[j].error = run[j].enum_fault

\* A job has ended failed because the second page of the enumeration used
\* up the rate-limit retries, after a first page with a country on it.
C10_Witness ==
    \E j \in DOMAIN run :
       /\ run[j].pc = "done"
       /\ run[j].enum_fault = RateLimitMsg
       /\ Len(run[j].served) = 1 /\ run[j].served[1] # <<>>
       /\ sync_jobs[j].status = "failed"
       /\ sync_jobs[j].error = RateLimitMsg

\* The job ended with a fault of the whole batch: its enumeration failed, or
\* its store write failed.
BatchFault(j) ==
    run[j].pc = "done" /\ (run[j].enum_fault # NoExc \/ run[j].upsert = "failed")

\* C11: a job whose batch failed (enumeration fault, or an exception outside
\* the per-country handler such as a failing store write) has status failed
\* and a non-empty error message; in every state a job is failed if and only
\* if its error field is set; and a status poll of a recorded job answers 200
\* with exactly the fields of the record.
C11_FailedIffError ==
    \A j \in DOMAIN sync_jobs :
       /\ sync_jobs[j].status = "failed" <=> sync_jobs[j].error # None
       /\ BatchFault(j)
             => /\ sync_jobs[j].status = "failed"
                /\ sync_jobs[j].error \in
                      {RateLimitMsg, ApiErrorMsg, RequestErrorMsg, JsonErrorMsg,
                       DbErrorMsg}
                /\ sync_jobs[j].error # ""
       /\ LET answer == get_sync_status(j)
          IN  /\ answer.status_code = 200
              /\ answer.body[1].status = sync_jobs[j].status
              /\ answer.body[1].error = sync_jobs[j].error
              /\ answer.body[1].countries_processed =
                    sync_jobs[j].countries_processed
              /\ answer.body[1].countries_total = sync_jobs[j].countries_total

\* A job that had been marked completed is failed, with the message of the
\* store fault, after its upsert raised; the poll shows it.
C11_Witness ==
    \E j \in DOMAIN sync_jobs :
       /\ run[j].upsert = "failed"
       /\ sync_jobs[j].completed_at
       /\ get_sync_status(j).body[1].status = "failed"
       /\ get_sync_status(j).body[1].error = DbErrorMsg

\* The responses of the pending _make_request call of the observed method.
Responses == IF client.op \in RequestOps THEN DOMAIN client.log ELSE {}

\* Response k has put the call to sleep for `due` time units: while it
\* sleeps no further request has been sent, and the request after it goes
\* out `due` time units after the response or later.
SleptFor(k, due) ==
    /\ k = Len(client.log) => client.pc \in {"sleep", "request"}
    /\ client.pc = "sleep" /\ k = Len(client.log)
          => client.wait = due /\ Len(client.attempts) = k
    /\ k < Len(client.attempts)
          => client.attempts[k + 1].at - client.log[k].at >= due

\* Response k has ended the call with the fault `fault`: no sleep, and no
\* request after it.
RaisedAt(k, fault) ==
    /\ k = Len(client.log)
    /\ client.pc = "raised"
    /\ client.fault = fault
    /\ client.wait = 0
    /\ Len(client.attempts) = k

\* C12: a 429 response puts _make_request to sleep for the Retry-After of
\* that response, 60 without the header, and the next request goes out only
\* after that time; the 429 response to the last retry raises
\* TwilioRateLimitError, not TwilioAPIError.
C12_RateLimitWait ==
    \A k \in Responses :
       client.log[k].kind = "rate_limited"
          => IF k <= max_retries
             THEN /\ client.log[k].header = "2" => SleptFor(k, 2)
                  /\ client.log[k].header = NoHeader => SleptFor(k, 60)
                  /\ client.log[k].header \in {"2", NoHeader}
             ELSE /\ RaisedAt(k, RateLimitMsg)
                  /\ client.fault \notin {ApiErrorMsg, RequestErrorMsg}

\* Four 429 responses in a row, the first with Retry-After: 2, so that the
\* second request went out 2 time units after it; the call has raised
\* TwilioRateLimitError.
C12_Witness ==
    /\ client.op \in RequestOps
    /\ client.pc = "raised" /\ client.fault = RateLimitMsg
    /\ Len(client.log) = max_retries + 1
    /\ \A k \in DOMAIN client.log : client.log[k].kind = "rate_limited"
    /\ client.log[1].header = "2"
    /\ client.attempts[2].at - client.log[1].at = 2

\* C13: a response with an error status other than 429 ends _make_request
\* at once with TwilioAPIError, whatever the retry counter: no sleep is
\* started and no further request is sent.
C13_StatusErrorNotRetried ==
    \A k \in Responses :
       client.log[k].kind = "http_error"
          => /\ RaisedAt(k, ApiErrorMsg)
             /\ client.fault # RateLimitMsg

\* An error status answered the second retry of a request.
C13_Witness ==
    /\ client.op \in RequestOps
    /\ client.pc = "raised" /\ client.fault = ApiErrorMsg
    /\ client.rc = 2
    /\ client.log[Len(client.log)].kind = "http_error"

\* C14: after a network error _make_request sleeps 2 ** retry_count time
\* units, so 1, 2 and 4 when network errors follow each other, and retries;
\* there are at most 3 retries, and the network error that answers the
\* last one raises TwilioAPIError, not TwilioRateLimitError.
C14_NetworkBackoff ==
    /\ client.op \in RequestOps => Len(client.attempts) <= max_retries + 1
    /\ \A k \in Responses :
          client.log[k].kind = "network"
             => IF k <= max_retries
                THEN /\ SleptFor(k, <<1, 2, 4>>[k])
                     /\ k < Len(client.attempts)
                           => client.attempts[k + 1].at - client.log[k].at
                                 = <<1, 2, 4>>[k]
                ELSE /\ RaisedAt(k, RequestErrorMsg)
                     /\ client.fault # RateLimitMsg

\* Four network errors in a row: the requests went out at 0, 1, 3 and 7,
\* and the call has raised TwilioAPIError.
C14_Witness ==
    /\ client.op \in RequestOps
    /\ client.pc = "raised" /\ client.fault = RequestErrorMsg
    /\ \A k \in DOMAIN client.log : client.log[k].kind = "network"
    /\ [k \in DOMAIN client.attempts |-> client.attempts[k].at] = <<0, 1, 3, 7>>

\* Coroutine k of job j can take its next step now: the response to its
\* pending request can be delivered, or, when it is the first in the queue
\* of the semaphore, it can be admitted.
CanProceed(j, k) ==
    /\ run[j].tasks[k].pc = "request"
          => ENABLED (\E kind \in RespKinds : \E header \in Headers(kind) :
                         TaskResponse(j, k, kind, header))
    /\ run[j].tasks[k].pc = "wait" /\ k = NextWaiting(run[j].tasks)
          => ENABLED Admit(j)

\* C15: while a coroutine of a fan-out sleeps for a retry, every sibling
\* can proceed: one with a request pending gets its response, and the one
\* that is next for admission is admitted.
C15_SleepBlocksNoSibling ==
    \A j \in DOMAIN run :
       run[j].pc = "fanout"
          => \A i \in DOMAIN run[j].tasks :
                run[j].tasks[i].pc = "sleep"
                   => \A k \in DOMAIN run[j].tasks \ {i} : CanProceed(j, k)

C17_FlagsFollowKeys ==
    client.op = "extract_number_types" /\ client.pc = "returned"
       => LET data == client.country_data
              has_map == "subresource_uris" \in DOMAIN data
          IN  /\ DOMAIN client.result =
                    {"local", "toll_free", "mobile", "national", "voip",
                     "shared_cost", "machine_to_machine"}
              /\ \A t \in DOMAIN client.result :
                    client.result[t] <=> has_map /\ t \in data.subresource_uris
              /\ ~has_map => \A t \in DOMAIN client.result : ~client.result[t]

\* A payload with the keys local and other has given local alone.
C17_Witness ==
    /\ client.op = "extract_number_types" /\ client.pc = "returned"
    /\ "subresource_uris" \in DOMAIN client.country_data
    /\ client.country_data.subresource_uris = {"local", "other"}
    /\ {t \in DOMAIN client.result : client.result[t]} = {"local"}

C19_StoredBusinessOnly ==
    \A row \in regStore : row.end_user_type = "business"

\* The committed statements that wrote country `code`, by their place in
\* the log.
WritesOf(code) ==
    {w \in DOMAIN writes :
        /\ writes[w].table = "types"
        /\ \E i \in DOMAIN writes[w].values :
              writes[w].values[i].country_code = code}

\* The record statement w proposed for country `code`.
Proposed(w, code) ==
    LET values == writes[w].values
    IN  values[CHOOSE i \in DOMAIN values : values[i].country_code = code]

\* C20: whatever was upserted for a country code before, the table holds
\* exactly one row for it, and that row has the name, the beta flag and the
\* seven flags of the last statement that wrote the code, with a
\* last_updated that is the time of that statement and not earlier than
\* the time of any statement before it; so writing the same values twice
\* leaves the contents that writing them once leaves.
C20_UpsertOverwrites ==
    /\ \A row \in countryStore : WritesOf(row.country_code) # {}
    /\ \A code \in Codes :
          WritesOf(code) # {}
             => LET last == CHOOSE w \in WritesOf(code) :
                               \A x \in WritesOf(code) : x <= w
                    rows == {row \in countryStore : row.country_code = code}
                IN  /\ Cardinality(rows) = 1
                    /\ \A row \in rows :
                          /\ \A f \in DOMAIN Proposed(last, code) :
                                row[f] = Proposed(last, code)[f]
                          /\ DOMAIN row =
                                DOMAIN Proposed(last, code) \cup {"last_updated"}
                          /\ row.last_updated = writes[last].at
                          /\ \A w \in WritesOf(code) :
                                row.last_updated >= writes[w].at

\* A country code has been written twice with different names, beta flags
\* and number types, the second time later than the first: the table has
\* one row for it, with the second write's mobile flag and time.
C20_Witness ==
    \E code \in Codes :
       /\ WritesOf(code) = {1, 2}
       /\ Proposed(1, code).country # Proposed(2, code).country
       /\ Proposed(1, code).beta # Proposed(2, code).beta
       /\ Proposed(1, code).mobile /\ ~Proposed(2, code).mobile
       /\ writes[1].at < writes[2].at
       /\ \E row \in countryStore :
             /\ row.country_code = code
             /\ ~row.mobile /\ row.toll_free
             /\ row.last_updated = writes[2].at

\* C21: in every reachable state of the store, after any sequence of upsert
\* calls, batches that name the same key more than once included, the
\* country table holds exactly one row for every country code ever written
\* and the regulation table exactly one row for every sid ever written.
C21_OneRowPerKey ==
    /\ \A a, b \in countryStore : a.country_code = b.country_code => a = b
    /\ \A a, b \in regStore : a.sid = b.sid => a = b
    /\ \A i \in DOMAIN writes : \A k \in DOMAIN writes[i].values :
          LET v == writes[i].values[k]
          IN  IF writes[i].table = "types"
              THEN Cardinality({row \in countryStore :
                                  row.country_code = v.country_code}) = 1
              ELSE Cardinality({row \in regStore : row.sid = v.sid}) = 1

\* A batch that names a stored country code twice, with two payloads, has
\* been handed to upsert_countries_to_db.
C21_Witness ==
    /\ client.op = "upsert_countries_to_db"
    /\ Len(client.data) = 2
    /\ client.data[1].country_code = client.data[2].country_code
    /\ client.data[1] # client.data[2]
    /\ \E row \in countryStore : row.country_code = client.data[1].country_code

\* The last call observed is a call of upsert_regulations_to_db.
RegsCall == client.op = "upsert_regulations_to_db"

\* The records of the batch of the last call that carry an identifier: the
\* sid key is there and is neither null nor empty.
WithSid ==
    {i \in DOMAIN client.data :
        /\ "sid" \in DOMAIN client.data[i]
        /\ client.data[i].sid # None
        /\ client.data[i].sid # ""}

\* The row of the regulation table for the sid of record i of the batch.
RowOf(i) == {row \in regStore : row.sid = client.data[i].sid}

\* The non-key columns of the regulation table.
RegColumns ==
    {"friendly_name", "iso_country", "number_type", "end_user_type",
     "requirements", "url"}

\* C22: when upsert_regulations_to_db returns for a batch, every record
\* with an identifier has its row, the one statement carries exactly the
\* records with an identifier, and no row is ever stored for a missing, null
\* or empty identifier; the call raises only out of the statement it has
\* executed for the records with an identifier, never over a record without.
C22_RecordsWithoutSidDropped ==
    /\ \A row \in regStore : row.sid \notin {None, ""}
    /\ RegsCall /\ client.pc = "returned" /\ WithSid # {} =>
          /\ client.statements = 1 /\ client.commits = 1
          /\ \A i \in WithSid : RowOf(i) # {}
          /\ writes # <<>>
          /\ writes[Len(writes)].table = "regs"
          /\ Len(writes[Len(writes)].values) = Cardinality(WithSid)
    /\ RegsCall /\ client.pc = "raised" =>
          WithSid # {} /\ client.statements = 1

\* A batch of one record with an identifier and one without has been
\* upserted: the call has returned and the first record is stored.
C22_Witness ==
    /\ RegsCall /\ client.pc = "returned"
    /\ Len(client.data) = 2
    /\ WithSid = {1}
    /\ RowOf(1) # {}
    /\ "sid" \notin DOMAIN client.data[2]

\* The batch of the last call is empty, or is a regulation batch in which
\* no record has an identifier.
EmptyInput(call) ==
    /\ call.op \in {"upsert_countries_to_db", "upsert_regulations_to_db"}
    /\ \/ Len(call.data) = 0
       \/ /\ call.op = "upsert_regulations_to_db"
          /\ \A i \in DOMAIN call.data :
                \/ "sid" \notin DOMAIN call.data[i]
                \/ call.data[i].sid \in {None, ""}

\* C23: a call of either upsert function with an empty batch, and a call of
\* upsert_regulations_to_db with a batch in which no record has an
\* identifier, returns without a statement executed and without a commit,
\* and leaves both tables as they were.
C23_EmptyInputNoOp ==
    [][now' = now /\ EmptyInput(client') =>
          /\ client'.pc = "returned"
          /\ client'.statements = 0 /\ client'.commits = 0
          /\ UNCHANGED <<countryStore, regStore, writes>>]_vars

\* A regulation batch of two records without an identifier has been handed
\* over while the table holds a row.
C23_Witness ==
    /\ RegsCall /\ Len(client.data) = 2 /\ EmptyInput(client)
    /\ client.pc = "returned"
    /\ regStore # {}

\* What the row of record i of the last batch holds in column c after the
\* write, when an absent field becomes `unset`.
C24_Stored(i, c, unset) ==
    \A row \in RowOf(i) :
        row[c] = IF c \in DOMAIN client.data[i] THEN client.data[i][c]
                 ELSE unset

\* The last call is an upsert of regulations that has committed its
\* statement.
RegsWritten == RegsCall /\ client.pc = "returned" /\ client.commits = 1

\* C24 as stated: after an upsert of a regulation the row holds, in every
\* non-key column, the value of the new record, and is unset in the column
\* of every field the record does not have.
C24_AbsentFieldsUnset ==
    RegsWritten =>
        \A i \in WithSid : \A c \in RegColumns : C24_Stored(i, c, None)

\* C24, amended: after an upsert of a regulation the row holds, in every
\* non-key column, the value of the new record, with nothing of the old row
\* merged in; the column of a field the record does not have is unset,
\* except end_user_type, which is then "business".
C24_ReplacedWholesale ==
    RegsWritten =>
        \A i \in WithSid : \A c \in RegColumns :
            /\ Cardinality(RowOf(i)) = 1
            /\ C24_Stored(i, c, IF c = "end_user_type" THEN "business"
                                ELSE None)

\* A stored regulation with a requirement structure has been upserted again
\* with a record that has no requirement structure.
C24_Witness ==
    /\ RegsWritten
    /\ Len(writes) = 2
    /\ writes[1].table = "regs"
    /\ writes[1].values[1].requirements # None
    /\ WithSid = {1}
    /\ writes[1].values[1].sid = client.data[1].sid
    /\ "requirements" \notin DOMAIN client.data[1]
    /\ \A row \in RowOf(1) : row.requirements = None

\* The last call observed is a number search that has ended with a fault of
\* the adapter.
SearchFailed == client.op = "search_numbers" /\ client.pc = "raised"

\* C25: a fault of the adapter during a number search reaches the caller
\* with a status by its kind: 429 for a TwilioRateLimitError, 400 for any
\* other TwilioAPIError, 500 for any other exception.
C25_FaultKindsDistinguished ==
    SearchFailed =>
        /\ client.fault = RateLimitMsg => client.status_code = 429
        /\ client.fault \in {ApiErrorMsg, RequestErrorMsg} =>
              client.status_code = 400
        /\ client.fault = JsonErrorMsg => client.status_code = 500

\* The country code a query names, whatever its spelling.
QueriedCode ==
    CHOOSE code \in Codes \cup {CodeList[Len(CodeList)]} :
        client.args.country_code \in Spellings(code)

\* The row of the country table for the queried code, if any.
QueriedCountry == {row \in countryStore : row.country_code = QueriedCode}

\* The regulations a query with only_available_types is to return: with a
\* row for the country, the business regulations of the country whose
\* number_type is unset or names a flag that is true in the row; without
\* one, all the regulations of the country; in both cases only those of the
\* number_type the query asks for, when it asks for one.
C26_Expected ==
    LET stored == {row \in regStore : row.iso_country = QueriedCode}
        asked == IF client.args.number_type \in {None, ""} THEN stored
                 ELSE {row \in stored :
                          row.number_type = client.args.number_type}
    IN  IF QueriedCountry = {} THEN asked
        ELSE {row \in asked :
                 /\ row.end_user_type = "business"
                 /\ \/ row.number_type = None
                    \/ \E country \in QueriedCountry :
                          /\ row.number_type \in NumberTypes
                          /\ country[row.number_type]}

\* C26: a regulation query with only_available_types returns exactly the
\* regulations C26_Expected, each as it is stored, for a country code in
\* any spelling; when there is none to return the answer is 404 with no
\* regulation.
C26_OnlyAvailableTypes ==
    client.op = "get_regulations" /\ client.args.only_available_types =>
        /\ client.body =
              {[f \in DOMAIN row |-> row[f]] : row \in C26_Expected}
        /\ client.status_code = IF C26_Expected = {} THEN 404 ELSE 200

\* A country with only mobile true and regulations for mobile, for
\* toll_free and for no number type has been queried: two regulations are
\* returned.
C26_Witness ==
    /\ client.op = "get_regulations" /\ client.args.only_available_types
    /\ client.args.number_type = None
    /\ \E country \in QueriedCountry :
          \A t \in NumberTypes : country[t] <=> t = "mobile"
    /\ {row.number_type : row \in {r \in regStore :
                                     r.iso_country = QueriedCode}}
          = {"mobile", "toll_free", None}
    /\ {row.number_type : row \in client.body} = {"mobile", None}

\* C27: a lookup of a country by its code, in any letter case, returns the
\* seven flags, the name and the beta flag of the stored row of that code,
\* and 404 when no row is stored for the code.
C27_LookupByCode ==
    client.op = "get_country" =>
        IF QueriedCountry = {}
        THEN client.status_code = 404 /\ client.body = {}
        ELSE /\ client.status_code = 200
             /\ Cardinality(client.body) = 1
             /\ \A answer \in client.body : \E row \in QueriedCountry :
                   \A f \in NumberTypes \cup {"country", "beta"} :
                      answer[f] = row[f]

\* A stored country with a true flag has been looked up by its code in
\* lower case.
C27_Witness ==
    /\ client.op = "get_country"
    /\ client.args.country_code # QueriedCode
    /\ client.status_code = 200
    /\ \E answer \in client.body : answer.mobile /\ ~answer.local

\* C28: listing the jobs with limit L returns at most L jobs, none when L is
\* zero or negative, whatever the registry holds, and every job returned
\* has been created after every job left out.
C28_AtMostLimit ==
    \A limit \in (0 - 1)..MaxLimit :
        LET jobs == list_sync_jobs(limit).jobs
            returned == {jobs[i].job_id : i \in DOMAIN jobs}
        IN  /\ Len(jobs) <= (IF limit > 0 THEN limit ELSE 0)
            /\ \A j \in returned : \A k \in DOMAIN sync_jobs \ returned :
                  sync_jobs[k].started_at < sync_jobs[j].started_at

\* C29: no step removes a record of the registry: every job identifier of
\* the registry is in it after the step, and get_sync_job_status still
\* returns a record for it.
C29_RegistryOnlyGrows ==
    [][\A j \in DOMAIN sync_jobs :
          /\ j \in DOMAIN sync_jobs'
          /\ get_sync_job_status(j)' # <<>>]_vars

\* Every job has its record and has ended, and a poll after the end of the
\* first job has found its record.
C29_Witness ==
    /\ DOMAIN sync_jobs = 1..MaxJobs
    /\ \A j \in DOMAIN sync_jobs : sync_jobs[j].status \in Terminal
    /\ client.op = "get_sync_status"
    /\ client.args.job_id = 1
    /\ client.status_code = 200
    /\ client.body[1].status \in Terminal

\* The records of the registry a step creates or changes.
Written ==
    {j \in DOMAIN sync_jobs' :
        j \notin DOMAIN sync_jobs \/ sync_jobs'[j] # sync_jobs[j]}

\* C30: a step writes at most one record of the registry, and then it is a
\* step of the background task of that job and of no other; a step that is
\* a status poll or a listing leaves the registry as it was; a trigger call
\* starts a background task under an identifier no task has had before and
\* leaves the other tasks alone.
C30_OwnRecordOnly ==
    [][/\ \A j \in Written :
             /\ Written = {j}
             /\ j \in DOMAIN run /\ run'[j] # run[j]
             /\ \A k \in DOMAIN run \ {j} : run'[k] = run[k]
             /\ client' = client
       /\ client' # client => sync_jobs' = sync_jobs
       /\ callers' # callers =>
             /\ sync_jobs' = sync_jobs
             /\ \E j \in DOMAIN run' \ DOMAIN run :
                   DOMAIN run' = DOMAIN run \cup {j}
             /\ \A k \in DOMAIN run : run'[k] = run[k]]_vars

\* Two jobs run at the same time: both have their records, neither has
\* ended, and a listing has shown them both.
C30_Witness ==
    /\ DOMAIN sync_jobs = 1..MaxJobs
    /\ \A j \in DOMAIN sync_jobs :
          sync_jobs[j].status = "in_progress" /\ run[j].pc # "done"
    /\ client.op = "list_sync_jobs"
    /\ Len(client.body) = MaxJobs

\* The keys of the rows of the two tables.
CountryKeys(table) == {row.country_code : row \in table}
RegulationKeys(table) == {row.sid : row \in table}

\* The keys the last committed statement has proposed for table `kind`.
LastKeys(kind, key) ==
    IF writes = <<>> \/ writes[Len(writes)].table # kind THEN {}
    ELSE {writes[Len(writes)].values[i][key] :
             i \in DOMAIN writes[Len(writes)].values}

\* C31: no step deletes a row: the stored country codes and the stored
\* sids only grow, and a row whose key the statement of the step does not
\* propose is after the step what it was before.
C31_NoRowDeleted ==
    [][/\ CountryKeys(countryStore) \subseteq CountryKeys(countryStore')
       /\ RegulationKeys(regStore) \subseteq RegulationKeys(regStore')
       /\ \A row \in countryStore :
             row \in countryStore'
                \/ (/\ writes' # writes
                    /\ row.country_code \in LastKeys("types", "country_code")')
       /\ \A row \in regStore :
             row \in regStore'
                \/ (/\ writes' # writes
                    /\ row.sid \in LastKeys("regs", "sid")')]_vars

\* A second statement has been committed to the country table, later than
\* the first and without the country of the first, whose row is still as
\* the first statement wrote it.
C31_Witness ==
    /\ Len(writes) = 2
    /\ writes[1].table = "types" /\ writes[2].table = "types"
    /\ writes[1].at < writes[2].at
    /\ \E row \in countryStore :
          /\ row.country_code \notin LastKeys("types", "country_code")
          /\ row = writes[1].values[1] @@ [last_updated |-> writes[1].at]

\* C32: countries_total of a job is unset, and countries_processed 0, while
\* list_countries is under way; once the enumeration has returned it is the
\* number of enumerated countries; wherever it is set, countries_processed
\* is between 0 and countries_total; a job whose enumeration failed keeps
\* countries_total unset and countries_processed 0.
C32_TotalAfterEnumeration ==
    \A j \in DOMAIN sync_jobs :
       LET total == sync_jobs[j].countries_total
           processed == sync_jobs[j].countries_processed
       IN  /\ run[j].pc = "enum" => total = <<>> /\ processed = 0
           /\ run[j].pc # "enum" /\ run[j].enum_fault = NoExc =>
                 total = <<Len(run[j].all_countries)>>
           /\ total # <<>> => 0 <= processed /\ processed <= total[1]
           /\ run[j].enum_fault # NoExc => total = <<>> /\ processed = 0

\* A number-type sync of two countries on two pages has completed with one
\* country processed.
C32_Witness ==
    \E j \in DOMAIN sync_jobs :
       /\ run[j].kind = "types"
       /\ sync_jobs[j].status = "completed"
       /\ sync_jobs[j].countries_total = <<2>>
       /\ sync_jobs[j].countries_processed = 1

\* The pending _make_request call has sent at most max_retries + 1
\* requests, and a 429 that answers the request sent with the counter at
\* max_retries has ended the call with the rate-limit fault at the moment it
\* arrived, with no wait and no further request.
C33_Bounded ==
    client.op \in RequestOps =>
        /\ Len(client.attempts) <= max_retries + 1
        /\ \A i \in DOMAIN client.log :
              /\ client.log[i].kind = "rate_limited"
              /\ client.attempts[i].rc = max_retries
              => /\ client.pc = "raised"
                 /\ client.fault = RateLimitMsg
                 /\ Len(client.log) = i /\ Len(client.attempts) = i
                 /\ client.elapsed = client.log[i].at

\* C33: one call of _make_request sends at most max_retries + 1 requests,
\* whatever the order of 429 responses and network errors, a 429 at the
\* last request fails at once with the rate-limit fault, and the call of the
\* method ends, by a return or by a raise.
C33_AtMostFourRequests ==
    []C33_Bounded /\ <>(client.pc \in {"returned", "raised"})

\* Three network errors have used the counter up, and the 429 that answered
\* the fourth request has ended the call.
C33_Witness ==
    /\ client.op \in RequestOps
    /\ client.pc = "raised" /\ client.fault = RateLimitMsg
    /\ Len(client.log) = max_retries + 1
    /\ \A i \in 1..max_retries : client.log[i].kind = "network"
    /\ client.log[max_retries + 1].kind = "rate_limited"

\* The fan-out coroutines of job j whose entry has no country code.
WithoutCode(j) ==
    {i \in DOMAIN run[j].tasks : run[j].tasks[i].country = NoCode}

\* C34: the coroutine of an entry without a country code never has a
\* request pending or a retry timer running, and ends with nothing to
\* return; after the fan-out the entry is counted in countries_total, every
\* slot of the semaphore is free again, the aggregate holds records of
\* entries with a code only, and a number-type sync counts in
\* countries_processed the entries that succeeded only.
C34_EntryWithoutCodeSkipped ==
    \A j \in DOMAIN run :
       /\ \A i \in WithoutCode(j) :
             /\ run[j].tasks[i].pc \in {"wait", "done"}
             /\ run[j].tasks[i].rc = 0 /\ run[j].tasks[i].page = 0
             /\ run[j].tasks[i].pc = "done" =>
                   /\ run[j].tasks[i].out = "skip"
                   /\ run[j].tasks[i].data = <<>>
       /\ PastFanout(j) /\ WithoutCode(j) # {} =>
             /\ sync_jobs[j].countries_total = <<Len(run[j].tasks)>>
             /\ run[j].sem = ConcurrencyLimit
             /\ \A k \in DOMAIN run[j].ret :
                   IF run[j].kind = "types"
                   THEN run[j].ret[k].country_code \in Codes
                   ELSE run[j].ret[k].iso_country \in Codes
             /\ run[j].kind = "types" =>
                   /\ Len(run[j].ret) = Cardinality(Outcome(j, "ok"))
                   /\ sync_jobs[j].countries_processed =
                         Cardinality(Outcome(j, "ok"))

\* A number-type sync of an entry without a code and a country that was
\* fetched has been aggregated.
C34_Witness ==
    \E j \in DOMAIN run :
       /\ PastFanout(j) /\ run[j].kind = "types"
       /\ Len(run[j].tasks) = 2
       /\ Cardinality(WithoutCode(j)) = 1
       /\ Cardinality(Outcome(j, "ok")) = 1
       /\ sync_jobs[j].countries_processed = 1

\* The enumeration of job j has returned at least one country, gather has
\* returned, and every coroutine of the fan-out has ended with a fault.
AllFailed(j) ==
    /\ PastFanout(j)
    /\ Len(run[j].tasks) >= 1
    /\ \A i \in DOMAIN run[j].tasks : run[j].tasks[i].out = "fail"

\* C35: a job whose enumeration succeeded and whose fetches all failed is
\* completed, with no error message, an empty aggregate and, in a
\* number-type sync, countries_processed 0; its wrapper calls no upsert, and
\* no step of the job changes a table or issues a statement.
C35_AllFetchesFailed ==
    /\ [](\A j \in DOMAIN run : AllFailed(j) =>
             /\ sync_jobs[j].status = "completed"
             /\ sync_jobs[j].error = None
             /\ run[j].ret = <<>>
             /\ run[j].pc # "upsert"
             /\ run[j].upsert \in {"none", "skipped"}
             /\ run[j].kind = "types" => sync_jobs[j].countries_processed = 0)
    /\ [][\A j \in DOMAIN run :
             (AllFailed(j) \/ AllFailed(j)') /\ run'[j] # run[j] =>
                 UNCHANGED <<countryStore, regStore, writes>>]_vars

\* A job whose only fetch failed has ended while the tables hold the rows
\* another job has written.
C35_Witness ==
    \E j \in DOMAIN run :
       /\ AllFailed(j)
       /\ run[j].pc = "done"
       /\ writes # <<>>
       /\ countryStore \cup regStore # {}

\* C36: the client of a run is closed at most once; it has been closed once
\* when the sync function has ended, on the completed and on every failed
\* path, and not before; when it is closed every coroutine of the fan-out
\* has ended, so that none has a request pending or still to send.
C36_ClosedOnceAfterFanout ==
    \A j \in DOMAIN run :
       /\ run[j].closes <= 1
       /\ run[j].pc \in {"upsert", "done"} => run[j].closes = 1
       /\ run[j].pc \in {"queued", "enum", "fanout", "closing"} =>
             run[j].closes = 0
       /\ run[j].closes = 1 \/ run[j].pc = "closing" =>
             \A i \in DOMAIN run[j].tasks : run[j].tasks[i].pc = "done"

\* A run of two countries, one fetched and one failed, has ended and has
\* closed its client.
C36_Witness ==
    \E j \in DOMAIN run :
       /\ run[j].pc = "done" /\ run[j].closes = 1
       /\ Len(run[j].tasks) = 2
       /\ Cardinality(Outcome(j, "fail")) = 1
       /\ Cardinality(Outcome(j, "ok")) = 1

\* A row without its last-updated timestamp.
Strip(row) == [c \in DOMAIN row \ {"last_updated"} |-> row[c]]

\* Two runs of one kind have ended, one after the other, and the provider
\* has enumerated the same countries to both.
RanTwice ==
    /\ DOMAIN run = 1..Reruns
    /\ \A j \in DOMAIN run : run[j].pc = "done"
    /\ \A j \in DOMAIN run : run[j].all_countries = run[1].all_countries

\* The rows the first committed statement has proposed: the store after the
\* first run, timestamps apart.
FirstWritten == IF writes = <<>> THEN {} ELSE Range(writes[1].values)

\* C37: after a sync has run twice against an unchanged provider with no
\* fault, the table of its kind holds, timestamps apart, exactly the rows
\* it held after the first run, one row for each, and the other table is
\* still empty.
C37_RerunLeavesStore ==
    RanTwice =>
        LET table == IF run[1].kind = "types" THEN countryStore ELSE regStore
            other == IF run[1].kind = "types" THEN regStore ELSE countryStore
        IN  /\ {Strip(row) : row \in table} = FirstWritten
            /\ Cardinality(table) = Cardinality(FirstWritten)
            /\ other = {}
            /\ Len(writes) \in {0, Reruns}

\* A regulation sync of two countries has run twice, the second statement
\* later than the first, and every row carries the time of the second.
C37_Witness ==
    /\ RanTwice
    /\ run[1].kind = "regs"
    /\ Len(run[1].all_countries) = 2
    /\ Len(writes) = Reruns
    /\ writes[1].at < writes[Reruns].at
    /\ Cardinality(regStore) >= 2
    /\ \A row \in regStore : row.last_updated = writes[Reruns].at

====
